---- MODULE Spec2Model ----
(***************************************************************************)
(* Model of the ZeroMQ RPC driver, openstack/common/rpc/impl_zmq.py:       *)
(* the per-host topic relay (ZmqProxy), the consumer reactor (ZmqReactor), *)
(* the request/reply correlation of _call/_cast/_multi_send and the reply  *)
(* path of InternalContext.                                                *)
(*                                                                         *)
(* The driver runs on eventlet green threads: a green thread runs until it *)
(* blocks (a recv with nothing to read, a send that cannot proceed, an     *)
(* event wait, a sleep).  Every action below is the code between two such  *)
(* suspension points.                                                      *)
(***************************************************************************)
EXTENDS Bags, FiniteSets, Integers, Sequences, TLC

\* ------------------------------------------------------------------------
\* Bounds of the model
\* ------------------------------------------------------------------------
\* rpc_zmq_topic_backlog: capacity K of every per-topic queue of the relay
Backlog == 2
\* raw frames the network hands to the relay in the relay specification
MaxFrames == 4
\* endpoints the matchmaker returns for one topic, at most
MaxEndpoints == 2
\* frames a misbehaving peer puts on the wire in the RPC specification
MaxInject == 1
\* casts the peers send to the topic in the consumers specification
MaxCasts == 3
\* CONF.matchmaker_heartbeat_ttl, in ticks of the store's clock
HeartbeatTtl == 2

\* ------------------------------------------------------------------------
\* Names
\* ------------------------------------------------------------------------
\* CONF.rpc_zmq_host: the host whose relay, reactor and callers are modelled
LocalHost == "h1"
\* another host of the deployment: frames sent to it leave the model
RemoteHost == "h2"
Hosts == {LocalHost, RemoteHost}
Callers == {"c1", "c2"}
ConsumerIds == {"k1", "k2"}

\* A topic string "<prefix><name>[.<host>]" kept as its parts: prefix is ""
\* or "fanout~", name has no dot, host is "" when there is no ".<host>".
Topic(prefix, name, host) == [prefix |-> prefix, name |-> name, host |-> host]

\* a relay that routes by the whole topic, host part included
SplitBase_whole(topic) == topic

\* topic.split('.', 1)[0]
SplitBase(topic) == [topic EXCEPT !.host = ""]

\* topic.startswith('fanout~') or topic.startswith('zmq_replies')
IsBroadcast(key) == key.prefix = "fanout~" \/ (key.prefix = "" /\ key.name = "zmq_replies")

\* a relay that makes a broadcast socket for fanout keys only
SockTypeFor_fanoutOnly(key) == IF key.prefix = "fanout~" THEN "PUB" ELSE "PUSH"

\* the sock_type ZmqProxy.consume picks for a routing key
SockTypeFor(key) == IF IsBroadcast(key) THEN "PUB" ELSE "PUSH"

\* ------------------------------------------------------------------------
\* Small helpers on functions with a growing domain (python dicts)
\* ------------------------------------------------------------------------
DictSet(d, k, v) == [x \in (DOMAIN d) \cup {k} |-> IF x = k THEN v ELSE d[x]]
DictDel(d, k) == [x \in (DOMAIN d) \ {k} |-> d[x]]
EmptyDict == [x \in {} |-> 0]
Last(s) == s[Len(s)]

\* a subscriber whose filter lets every frame pass
FilterMatches_all(filter, first) == TRUE

\* ZeroMQ SUB filter: a frame passes when the filter is a prefix of its first
\* part.  First parts are '0' or uuid4().hex strings of one length, and the
\* filters used are '' or such a hex string, so "prefix of" is "empty or equal".
FilterMatches(filter, first) == filter = "" \/ filter = first

VARIABLES
    wire,           \* frames sent to a host's tcp PULL socket, not yet received
    proxy_pc,       \* ZmqProxy consume loop: "recv" | "wait"
    proxy_data,     \* the frame ZmqProxy.consume holds while it waits
    creation,       \* wait_sock_creation Event: "none" | "pending" | "sent" | "exception"
    topic_proxy,    \* ZmqProxy.topic_proxy: routing key -> queue of frames
    publisher,      \* publisher green threads: routing key -> [pc, type, data]
    out_sock,       \* local ipc sockets bound by publishers: routing key -> type
    consumers,      \* reactor in-sockets made by create_consumer: id -> record
    log,            \* bag of LOG.error entries
    offered,        \* history: per key, frames handed to put_nowait, in order
    dropped,        \* history: per key, frames put_nowait refused, in order
    drained,        \* history: per key, frames the publisher took off the queue
    nframes,        \* frames the network has produced so far (relay specification)
    caller,         \* per caller: the rpc operation in progress and its outcome
    waiter,         \* per caller: the msg_waiter SUB socket of _call
    greenthreads,   \* _cast calls spawned by _multi_send, not yet run
    reactor_pc,     \* ZmqReactor consume loop of the service socket
    pool,           \* ConsumerBase.process calls spawned into the reactor pool
    handled,        \* history: handler invocations (proxy.dispatch), in order
    injected        \* frames a misbehaving peer has put on the wire so far

VARIABLES
    mm_bindings,    \* MatchMakerRedis bindings, in add_binding order; <<>> before __init__
    ttl_missing,    \* what the Redis server answers to TTL of a key that does not exist
    redis_keys,     \* Redis string keys: name -> -1 (no expiry) or seconds to live
    redis_sets,     \* Redis sets: name -> members
    host_topic,     \* MatchMakerRedis.host_topic: the (key, host) pairs registered here
    mm_last         \* history: the last matchmaker operation and what it returned

mmVars == <<mm_bindings, ttl_missing, redis_keys, redis_sets, host_topic, mm_last>>

VARIABLES
    pipe,           \* per directory client: the commands queued in its redis pipeline
    zsock,          \* one ZmqSocket handle: kind, sock, subscriptions, the native socket's filters
    zlast,          \* the outcome of the last operation on the handle
    mapping,        \* reactor.mapping: for a paired inbound socket its outbound socket
    reg_last,       \* the arguments and the outcome of the last register()
    ZMQ_CTX,        \* the module global: the ZeroMQ context, 0 for None
    matchmaker,     \* the module global: the memoized matchmaker, 0 for None
    made,           \* history: the objects created, each with the number of cleanups before it
    uses,           \* history: what each green thread got from _get_ctxt and _get_matchmaker
    cleanups,       \* history: the number of cleanup() calls so far
    pool_size,      \* conf.rpc_thread_pool_size: the size of the reactor's GreenPool
    held,           \* per consume loop: the process() it is waiting to spawn into the full pool
    closed,         \* the reactors whose close() has run
    closed_socks,   \* the sockets the close() calls have closed
    handled_at_close \* history: how many requests had been handled when the reactor closed

VARIABLES
    cast_pc,        \* per green thread in _cast: where it is, the address, its ZmqClient
    outq,           \* every ZmqClient socket made so far: its address and its state
    cast_log        \* history: for each cast that sent, the address and the socket used

castVars == <<cast_pc, outq, cast_log>>

VARIABLES
    zp_pc,              \* per consume loop of a ZmqProxy: "recv", or "wait" for socket creation
    zp_data,            \* per consume loop: the frame its consume call holds
    wait_sock_creation, \* per consume loop: the event of its consume call
    zp_publishers,      \* the publisher green threads spawned, in order
    zp_queues,          \* the LightQueues made, in order, with their content
    zp_topic_proxy,     \* proxy.topic_proxy: routing key -> the number of its queue
    zp_sockets,         \* the ipc sockets bound, in order: the routing key of each
    zp_received,        \* history: the number of frames received
    zp_lost             \* history: the frames dropped because socket creation failed

loopVars == <<zp_pc, zp_data, wait_sock_creation, zp_publishers, zp_queues,
              zp_topic_proxy, zp_sockets, zp_received, zp_lost>>

\* the state of the parts of the library that stand beside the driver and
\* the matchmaker
globalVars == <<ZMQ_CTX, matchmaker, made, uses, cleanups>>
regVars == <<mapping, reg_last>>
handleVars == <<pipe, zsock, zlast>>
poolVars == <<pool_size, held>>
closeVars == <<closed, closed_socks, handled_at_close>>
VARIABLES
    is_alive_pc,        \* per directory client in is_alive: where it is and the host it tests
    evicted             \* history: the hosts is_alive evicted, each with its ttl at removal

lookupVars == <<is_alive_pc, evicted>>

VARIABLES
    cache,              \* MemoryBackend._cache: key -> (expires_at, value)
    keys_expires,       \* MemoryBackend._keys_expires: expires_at -> set of keys
    utcnow_ts,          \* what timeutils.utcnow_ts() returns now, in seconds
    cache_last          \* history: the last cache operation, what it found and returned

cacheVars == <<cache, keys_expires, utcnow_ts, cache_last>>

coreVars == <<handleVars, regVars, globalVars, poolVars, closeVars>>
sideVars == <<castVars, loopVars, lookupVars, cacheVars>>
castRest == <<coreVars, loopVars, lookupVars, cacheVars>>
loopRest == <<coreVars, castVars, lookupVars, cacheVars>>
lookupRest == <<coreVars, castVars, loopVars, cacheVars>>
cacheRest == <<coreVars, castVars, loopVars, lookupVars>>
restVars == <<coreVars, sideVars>>

relayVars == <<proxy_pc, proxy_data, creation, topic_proxy, publisher,
               out_sock, log, offered, dropped, drained>>
rpcVars == <<caller, greenthreads, reactor_pc, pool, handled, injected>>
zmqVars == <<wire, proxy_pc, proxy_data, creation, topic_proxy, publisher,
             out_sock, consumers, log, offered, dropped, drained, nframes,
             caller, waiter, greenthreads, reactor_pc, pool, handled, injected>>
vars == <<zmqVars, mmVars, restVars>>

NoFrame == [msg_id |-> "", topic |-> Topic("", "", ""), style |-> "", body |-> [enc |-> "none"]]

\* the four-part message ZmqClient.cast sends: msg_id, topic, 'cast', payload
Frame(msg_id, topic, body) == [msg_id |-> msg_id, topic |-> topic, style |-> "cast", body |-> body]

HistOf(h, key) == IF key \in DOMAIN h THEN h[key] ELSE <<>>
HistAdd(h, key, f) == DictSet(h, key, Append(HistOf(h, key), f))

LogError(event, key) == [level |-> "error", event |-> event, topic |-> key]
Logged(l, entry) == l (+) SetToBag({entry})

\* ------------------------------------------------------------------------
\* ZmqProxy: the per-host topic relay
\* ------------------------------------------------------------------------
\* the ipc reply channel every _call subscribes to: zmq_topic_zmq_replies
ReplyKey == Topic("", "zmq_replies", "")

\* the in-sockets currently connected to the ipc socket of a routing key
PullPeers(key) == {id \in DOMAIN consumers :
                      /\ consumers[id].key = key
                      /\ consumers[id].type = "PULL"
                      /\ consumers[id].connected}
SubPeers(key, data) == {id \in DOMAIN consumers :
                      /\ consumers[id].key = key
                      /\ consumers[id].type = "SUB"
                      /\ consumers[id].connected
                      /\ \E f \in consumers[id].subscriptions : FilterMatches(f, data.msg_id)}
SubWaiters(key, data) == {c \in Callers :
                      /\ key = ReplyKey
                      /\ waiter[c].state = "open"
                      /\ waiter[c].connected
                      /\ \E f \in waiter[c].subscriptions : FilterMatches(f, data.msg_id)}

\* out_sock.send(data) can proceed: a PUB socket never blocks (no subscriber,
\* no delivery); a PUSH socket blocks until a PULL peer is connected.
CanSend(key) == out_sock[key] = "PUB" \/ PullPeers(key) # {}

\* a PUSH socket that hands the frame to every connected PULL peer
SockSend_pushToAll(key, data) ==
    IF out_sock[key] = "PUB"
    THEN /\ consumers' = [id \in DOMAIN consumers |->
                IF id \in SubPeers(key, data)
                THEN [consumers[id] EXCEPT !.inbox = Append(@, data)]
                ELSE consumers[id]]
         /\ waiter' = [c \in Callers |->
                IF c \in SubWaiters(key, data)
                THEN [waiter[c] EXCEPT !.inbox = Append(@, data)]
                ELSE waiter[c]]
    ELSE /\ consumers' = [id \in DOMAIN consumers |->
                IF id \in PullPeers(key)
                THEN [consumers[id] EXCEPT !.inbox = Append(@, data)]
                ELSE consumers[id]]
         /\ UNCHANGED waiter

\* a PUB socket that hands the frame to one of its subscribers only
SockSend_pubToOne(key, data) ==
    IF out_sock[key] = "PUB"
    THEN /\ IF SubPeers(key, data) = {}
            THEN UNCHANGED consumers
            ELSE \E id \in SubPeers(key, data) :
                    consumers' = [consumers EXCEPT ![id].inbox = Append(@, data)]
         /\ waiter' = [c \in Callers |->
                IF c \in SubWaiters(key, data)
                THEN [waiter[c] EXCEPT !.inbox = Append(@, data)]
                ELSE waiter[c]]
    ELSE /\ \E id \in PullPeers(key) :
                consumers' = [consumers EXCEPT ![id].inbox = Append(@, data)]
         /\ UNCHANGED waiter

\* out_sock.send(data): PUSH hands the frame to one connected PULL peer,
\* PUB to every connected SUB peer whose filter matches the first part.
SockSend(key, data) ==
    IF out_sock[key] = "PUB"
    THEN /\ consumers' = [id \in DOMAIN consumers |->
                IF id \in SubPeers(key, data)
                THEN [consumers[id] EXCEPT !.inbox = Append(@, data)]
                ELSE consumers[id]]
         /\ waiter' = [c \in Callers |->
                IF c \in SubWaiters(key, data)
                THEN [waiter[c] EXCEPT !.inbox = Append(@, data)]
                ELSE waiter[c]]
    ELSE /\ \E id \in PullPeers(key) :
                consumers' = [consumers EXCEPT ![id].inbox = Append(@, data)]
         /\ UNCHANGED waiter

\* eventlet LightQueue(maxsize).put_nowait(item) from a green thread:
\* the item is queued when there is a free slot, else Full is raised.
QueueHasRoom(q) == Len(q) < Backlog

\* put_nowait as a buggy relay might do it: when the queue is full the oldest
\* frame is thrown away to make room for the new one
put_nowait_dropOldest(key, data) ==
    /\ offered' = HistAdd(offered, key, data)
    /\ IF QueueHasRoom(topic_proxy[key])
       THEN /\ topic_proxy' = [topic_proxy EXCEPT ![key] = Append(@, data)]
            /\ UNCHANGED <<log, dropped>>
       ELSE /\ log' = Logged(log, LogError("backlog_full", key))
            /\ dropped' = HistAdd(dropped, key, Head(topic_proxy[key]))
            /\ topic_proxy' = [topic_proxy EXCEPT ![key] = Append(Tail(@), data)]
    /\ proxy_pc' = "recv"
    /\ proxy_data' = NoFrame
    /\ creation' = "none"

\* put_nowait replaced by a blocking put: on a full queue the relay's loop
\* waits for a free slot
put_blocking(key, data) ==
    IF QueueHasRoom(topic_proxy[key])
    THEN /\ offered' = HistAdd(offered, key, data)
         /\ topic_proxy' = [topic_proxy EXCEPT ![key] = Append(@, data)]
         /\ proxy_pc' = "recv"
         /\ proxy_data' = NoFrame
         /\ creation' = "none"
         /\ UNCHANGED <<log, dropped>>
    ELSE /\ proxy_pc' = "put"
         /\ proxy_data' = data
         /\ creation' = "none"
         /\ UNCHANGED <<offered, topic_proxy, log, dropped>>

\* ZmqProxy.consume, lines 483-489: queue the frame or drop it with an
\* error-level log entry; then consume returns and the loop receives again.
put_nowait(key, data) ==
    /\ offered' = HistAdd(offered, key, data)
    /\ IF QueueHasRoom(topic_proxy[key])
       THEN /\ topic_proxy' = [topic_proxy EXCEPT ![key] = Append(@, data)]
            /\ UNCHANGED <<log, dropped>>
       ELSE /\ log' = Logged(log, LogError("backlog_full", key))
            /\ dropped' = HistAdd(dropped, key, data)
            /\ UNCHANGED topic_proxy
    /\ proxy_pc' = "recv"
    /\ proxy_data' = NoFrame
    /\ creation' = "none"

\* ZmqProxy.consume up to its first suspension point: receive a frame and,
\* for a known routing key, queue it; for a new key spawn the publisher and
\* wait for the socket creation event.
ProxyRecv ==
    /\ proxy_pc = "recv"
    /\ \E m \in wire :
        /\ m.addr = LocalHost
        /\ wire' = wire \ {m}
        /\ LET data == m.frame
               key == SplitBase(data.topic)
           IN IF key \in DOMAIN topic_proxy
              THEN /\ put_nowait(key, data)
                   /\ UNCHANGED publisher
              ELSE /\ publisher' = DictSet(publisher, key,
                          [pc |-> "create", type |-> SockTypeFor(key), data |-> NoFrame])
                   /\ creation' = "pending"
                   /\ proxy_pc' = "wait"
                   /\ proxy_data' = data
                   /\ UNCHANGED <<topic_proxy, log, offered, dropped>>
    /\ UNCHANGED <<out_sock, consumers, drained, nframes, waiter>>
    /\ UNCHANGED rpcVars
    /\ UNCHANGED mmVars
    /\ UNCHANGED restVars

\* a publisher that leaves a queue in topic_proxy when the bind failed
PublisherOpen_queueOnFailure(key) ==
    /\ key \in DOMAIN publisher
    /\ publisher[key].pc = "create"
    /\ \E bound \in BOOLEAN :
        IF bound
        THEN /\ topic_proxy' = DictSet(topic_proxy, key, <<>>)
             /\ out_sock' = DictSet(out_sock, key, publisher[key].type)
             /\ IF publisher[key].type = "PUB"
                THEN /\ publisher' = [publisher EXCEPT ![key].pc = "settle"]
                     /\ UNCHANGED creation
                ELSE /\ publisher' = [publisher EXCEPT ![key].pc = "get"]
                     /\ creation' = "sent"
        ELSE /\ creation' = "exception"
             /\ publisher' = DictDel(publisher, key)
             /\ topic_proxy' = DictSet(topic_proxy, key, <<>>)
             /\ UNCHANGED out_sock
    /\ UNCHANGED <<wire, proxy_pc, proxy_data, consumers, log, offered, dropped,
                   drained, nframes, waiter>>
    /\ UNCHANGED rpcVars
    /\ UNCHANGED mmVars
    /\ UNCHANGED restVars

\* a publisher that signals the waiter as soon as the socket is bound, for a
\* PUB socket too
PublisherOpen_noSettle(key) ==
    /\ key \in DOMAIN publisher
    /\ publisher[key].pc = "create"
    /\ \E bound \in BOOLEAN :
        IF bound
        THEN /\ topic_proxy' = DictSet(topic_proxy, key, <<>>)
             /\ out_sock' = DictSet(out_sock, key, publisher[key].type)
             /\ publisher' = [publisher EXCEPT ![key].pc = "get"]
             /\ creation' = "sent"
        ELSE /\ creation' = "exception"
             /\ publisher' = DictDel(publisher, key)
             /\ UNCHANGED <<topic_proxy, out_sock>>
    /\ UNCHANGED <<wire, proxy_pc, proxy_data, consumers, log, offered, dropped,
                   drained, nframes, waiter>>
    /\ UNCHANGED rpcVars
    /\ UNCHANGED mmVars
    /\ UNCHANGED restVars

\* publisher(), lines 446-466 for a PUSH socket, 446-464 for a PUB socket:
\* bind the ipc socket (it may fail with RPCException), create the queue,
\* then either signal the waiter at once (PUSH) or sleep .5 first (PUB).
PublisherOpen(key) ==
    /\ key \in DOMAIN publisher
    /\ publisher[key].pc = "create"
    /\ \E bound \in BOOLEAN :
        IF bound
        THEN /\ topic_proxy' = DictSet(topic_proxy, key, <<>>)
             /\ out_sock' = DictSet(out_sock, key, publisher[key].type)
             /\ IF publisher[key].type = "PUB"
                THEN /\ publisher' = [publisher EXCEPT ![key].pc = "settle"]
                     /\ UNCHANGED creation
                ELSE /\ publisher' = [publisher EXCEPT ![key].pc = "get"]
                     /\ creation' = "sent"
        ELSE /\ creation' = "exception"
             /\ publisher' = DictDel(publisher, key)
             /\ UNCHANGED <<topic_proxy, out_sock>>
    /\ UNCHANGED <<wire, proxy_pc, proxy_data, consumers, log, offered, dropped,
                   drained, nframes, waiter>>
    /\ UNCHANGED rpcVars
    /\ UNCHANGED mmVars
    /\ UNCHANGED restVars

\* publisher(), lines 464-469: the settle sleep of a PUB socket is over
PublisherSettle(key) ==
    /\ key \in DOMAIN publisher
    /\ publisher[key].pc = "settle"
    /\ publisher' = [publisher EXCEPT ![key].pc = "get"]
    /\ creation' = "sent"
    /\ UNCHANGED <<wire, proxy_pc, proxy_data, topic_proxy, out_sock, consumers, log,
                   offered, dropped, drained, nframes, waiter>>
    /\ UNCHANGED rpcVars
    /\ UNCHANGED mmVars
    /\ UNCHANGED restVars

\* ZmqProxy.consume, lines 477-489 after wait_sock_creation.wait() returned
ProxyResume ==
    /\ proxy_pc = "wait"
    /\ creation = "sent"
    /\ put_nowait(SplitBase(proxy_data.topic), proxy_data)
    /\ UNCHANGED <<wire, publisher, out_sock, consumers, drained, nframes, waiter>>
    /\ UNCHANGED rpcVars
    /\ UNCHANGED mmVars
    /\ UNCHANGED restVars

\* ZmqProxy.consume, lines 479-481: wait_sock_creation.wait() raised
ProxyCreateFailed ==
    /\ proxy_pc = "wait"
    /\ creation = "exception"
    /\ log' = Logged(log, LogError("socket_creation_failed", SplitBase(proxy_data.topic)))
    /\ proxy_pc' = "recv"
    /\ proxy_data' = NoFrame
    /\ creation' = "none"
    /\ UNCHANGED <<wire, topic_proxy, publisher, out_sock, consumers, offered, dropped,
                   drained, nframes, waiter>>
    /\ UNCHANGED rpcVars
    /\ UNCHANGED mmVars
    /\ UNCHANGED restVars

\* a publisher that takes the newest frame off the queue instead of the oldest
PublisherRelay_newestFirst(key) ==
    /\ key \in DOMAIN publisher
    /\ publisher[key].pc = "get"
    /\ topic_proxy[key] # <<>>
    /\ LET data == Last(topic_proxy[key])
       IN /\ topic_proxy' = [topic_proxy EXCEPT ![key] = SubSeq(@, 1, Len(@) - 1)]
          /\ drained' = HistAdd(drained, key, data)
          /\ IF CanSend(key)
             THEN /\ SockSend(key, data)
                  /\ UNCHANGED publisher
             ELSE /\ publisher' = [publisher EXCEPT ![key].pc = "send", ![key].data = data]
                  /\ UNCHANGED <<consumers, waiter>>
    /\ UNCHANGED <<wire, proxy_pc, proxy_data, creation, out_sock, log, offered, dropped,
                   nframes>>
    /\ UNCHANGED rpcVars
    /\ UNCHANGED mmVars
    /\ UNCHANGED restVars

\* publisher(), lines 468-470: take the next frame off the queue and send it
\* on the ipc socket; when the send cannot proceed the publisher blocks in it
\* holding the frame.
\* On a socket that close() has closed, send raises and the publisher ends.
PublisherRelay(key) ==
    /\ key \in DOMAIN publisher
    /\ publisher[key].pc = "get"
    /\ topic_proxy[key] # <<>>
    /\ LET data == Head(topic_proxy[key])
       IN /\ topic_proxy' = [topic_proxy EXCEPT ![key] = Tail(@)]
          /\ drained' = HistAdd(drained, key, data)
          /\ IF key \in closed_socks.proxy
             THEN /\ publisher' = [publisher EXCEPT ![key].pc = "dead"]
                  /\ UNCHANGED <<consumers, waiter>>
             ELSE IF CanSend(key)
             THEN /\ SockSend(key, data)
                  /\ UNCHANGED publisher
             ELSE /\ publisher' = [publisher EXCEPT ![key].pc = "send", ![key].data = data]
                  /\ UNCHANGED <<consumers, waiter>>
    /\ UNCHANGED <<wire, proxy_pc, proxy_data, creation, out_sock, log, offered, dropped,
                   nframes>>
    /\ UNCHANGED rpcVars
    /\ UNCHANGED mmVars
    /\ UNCHANGED restVars

\* publisher(), line 470: a send that was blocked goes through
PublisherUnblock(key) ==
    /\ key \in DOMAIN publisher
    /\ publisher[key].pc = "send"
    /\ IF key \in closed_socks.proxy
       THEN /\ publisher' = [publisher EXCEPT ![key].pc = "dead", ![key].data = NoFrame]
            /\ UNCHANGED <<consumers, waiter>>
       ELSE /\ CanSend(key)
            /\ SockSend(key, publisher[key].data)
            /\ publisher' = [publisher EXCEPT ![key].pc = "get", ![key].data = NoFrame]
    /\ UNCHANGED <<wire, proxy_pc, proxy_data, creation, topic_proxy, out_sock, log,
                   offered, dropped, drained, nframes>>
    /\ UNCHANGED rpcVars
    /\ UNCHANGED mmVars
    /\ UNCHANGED restVars

\* ------------------------------------------------------------------------
\* Connection.create_consumer and the ipc connections
\* ------------------------------------------------------------------------
NoWaiter == [state |-> "none", subscriptions |-> {}, connected |-> FALSE, inbox |-> <<>>]

\* Connection.create_consumer(topic, proxy, fanout): a PULL socket on the ipc
\* socket of the base topic, or with fanout a SUB socket, subscribed to '',
\* on that of 'fanout~' + base topic.  bind=False: the socket connects.
create_consumer(id, topic, fanout) ==
    /\ id \notin DOMAIN consumers
    /\ LET base == SplitBase(topic)
           rec == IF fanout
                  THEN [key |-> [base EXCEPT !.prefix = "fanout~"], type |-> "SUB",
                        subscriptions |-> {""}, connected |-> FALSE, inbox |-> <<>>]
                  ELSE [key |-> base, type |-> "PULL",
                        subscriptions |-> {}, connected |-> FALSE, inbox |-> <<>>]
       IN consumers' = DictSet(consumers, id, rec)
    /\ UNCHANGED <<wire, nframes, waiter>>
    /\ UNCHANGED relayVars
    /\ UNCHANGED rpcVars
    /\ UNCHANGED mmVars
    /\ UNCHANGED restVars

\* ZeroMQ completes the connection of a connecting ipc socket once the
\* publisher has bound the address; frames sent before that do not reach it.
ConsumerConnect(id) ==
    /\ id \in DOMAIN consumers
    /\ ~consumers[id].connected
    /\ consumers[id].key \in DOMAIN out_sock
    /\ id \notin closed_socks.reactor
    /\ consumers[id].key \notin closed_socks.proxy
    /\ consumers' = [consumers EXCEPT ![id].connected = TRUE]
    /\ UNCHANGED <<wire, nframes, waiter>>
    /\ UNCHANGED relayVars
    /\ UNCHANGED rpcVars
    /\ UNCHANGED mmVars
    /\ UNCHANGED restVars

\* ------------------------------------------------------------------------
\* Python values that cross the wire, and the JSON codec
\* ------------------------------------------------------------------------
PyNone == [tag |-> "none"]
PyStr(s) == [tag |-> "str", s |-> s]
PyList(items) == [tag |-> "list", items |-> items]
PyDict(d) == [tag |-> "dict", d |-> d]
\* an object json cannot encode
PyObject == [tag |-> "object"]
\* a generator object that will yield the given values
PyGenerator(yields) == [tag |-> "generator", yields |-> yields]

\* isinstance(resp, types.DictType) and 'exc' in resp
HasExc(resp) == resp.tag = "dict" /\ "exc" \in DOMAIN resp.d

RECURSIVE JsonRepresentable(_)
JsonRepresentable(v) ==
    CASE v.tag \in {"none", "str"} -> TRUE
      [] v.tag = "list" -> \A i \in 1..Len(v.items) : JsonRepresentable(v.items[i])
      [] v.tag = "dict" -> \A k \in DOMAIN v.d : JsonRepresentable(v.d[k])
      [] OTHER -> FALSE

\* x[-1] in python: [ok, value] or the exception it raises
PyIndexLast(x) ==
    CASE x.tag = "list" -> IF Len(x.items) > 0
                           THEN [ok |-> TRUE, value |-> Last(x.items), exc |-> ""]
                           ELSE [ok |-> FALSE, value |-> PyNone, exc |-> "IndexError"]
      [] x.tag = "dict" -> [ok |-> FALSE, value |-> PyNone, exc |-> "KeyError"]
      [] OTHER -> [ok |-> FALSE, value |-> PyNone, exc |-> "TypeError"]

\* a message payload is a mapping with 'method' and 'args'; it can be encoded
\* when the reply values it carries can
PayloadRepresentable(payload) ==
    ("args" \in DOMAIN payload /\ "response" \in DOMAIN payload.args)
        => JsonRepresentable(payload.args.response)

\* _serialize([context, msg]): the JSON text of the pair (jsonutils.dumps)
Serialize(mctx, payload) == [enc |-> "json", ctx |-> mctx, msg |-> payload]
\* _deserialize(text) succeeds on JSON text only (jsonutils.loads)
IsJson(body) == body.enc = "json"

\* RpcContext.marshal(context): the JSON text of context.to_dict()
Marshal(ctx) == [enc |-> "json", dict |-> ctx]
\* RpcContext.unmarshal(data): a fresh RpcContext, replies = []
Unmarshal(mctx) == [values |-> mctx.dict, replies |-> <<>>]

\* rpc_common.serialize_remote_exception(exc_info): the failure as JSON text
\* naming the exception class
SerializeRemoteException(cls) == PyStr(cls)
\* rpc_common.deserialize_remote_exception(conf, data): the exception to raise
\* locally, carrying the remote class
DeserializeRemoteException(data) == [remote |-> TRUE, class |-> data.s]

\* ------------------------------------------------------------------------
\* The application handler behind proxy.dispatch
\* ------------------------------------------------------------------------
\* What one invocation of a handler does: the values it passes to ctx.reply,
\* then either the value it returns, or the exception it raises.
Behaviour(kind, result, replies, exc) ==
    [kind |-> kind, result |-> result, replies |-> replies, exc |-> exc]

Behaviours == {
    Behaviour("return", PyDict([status |-> PyStr("ok")]), <<>>, ""),
    Behaviour("return", PyDict([exc |-> PyStr("app data")]), <<>>, ""),
    Behaviour("return", PyNone, <<PyStr("r1"), PyStr("r2")>>, ""),
    Behaviour("return", PyGenerator(<<PyStr("g1"), PyStr("g2")>>), <<>>, ""),
    Behaviour("return", PyGenerator(<<>>), <<>>, ""),
    Behaviour("return", PyObject, <<>>, ""),
    Behaviour("raise", PyNone, <<>>, "ValueError"),
    Behaviour("client_exc", PyNone, <<>>, "KeyError"),
    Behaviour("exit", PyNone, <<>>, "GreenletExit") }

\* ConsumerBase.normalize_reply(result, replies)
normalize_reply(result, replies) ==
    IF result.tag = "generator" THEN PyList(result.yields)
    ELSE IF replies # <<>> THEN PyList(replies)
    ELSE PyList(<<result>>)

\* InternalContext._get_response: what it returns for a handler behaviour
get_response(b) ==
    CASE b.kind = "return" -> normalize_reply(b.result, b.replies)
      [] b.kind = "exit" -> PyNone
      [] b.kind = "client_exc" -> PyDict([exc |-> SerializeRemoteException(b.exc)])
      [] b.kind = "raise" -> PyDict([exc |-> SerializeRemoteException(b.exc)])

\* a reply that carries what _get_response returned, normalized once only
reply_response_once(ctx, b) == get_response(b)

\* InternalContext.reply, lines 292-295: the response put into the reply;
\* ctx is the context ZmqReactor.consume unmarshalled for the message
reply_response(ctx, b) == normalize_reply(get_response(b), ctx.replies)

\* ------------------------------------------------------------------------
\* rpc operations: _multi_send, _call, _cast
\* ------------------------------------------------------------------------
Ops == {"call", "multicall", "cast", "fanout_cast"}
ServiceTopic == Topic("", "svc", "")
\* reply_topic = "zmq_replies.%s" % CONF.rpc_zmq_host
ReplyTopic == Topic("", "zmq_replies", LocalHost)

RECURSIVE SeqsOver(_, _)
SeqsOver(S, n) ==
    IF n = 0 THEN {<<>>}
    ELSE LET shorter == SeqsOver(S, n - 1)
         IN shorter \cup {Append(q, h) : q \in {r \in shorter : Len(r) = n - 1}, h \in S}

\* _get_matchmaker().queues(topic): (topic.host, host) pairs of distinct hosts
MatchmakerResults(topic, hosts) ==
    {[i \in 1..Len(q) |-> [topic |-> [topic EXCEPT !.host = q[i]], host |-> q[i]]] :
        q \in {r \in SeqsOver(hosts, MaxEndpoints) :
                  \A i, j \in 1..Len(r) : i # j => r[i] # r[j]}}

\* queues(reply_topic): the topic names its host, which is the only answer
ReplyMatchmakerResults == {<<>>, <<[topic |-> ReplyTopic, host |-> LocalHost]>>}

\* msg_id = uuid.uuid4().hex: a fresh id for every call
MsgId(c) == IF c = "c1" THEN "uuid1" ELSE "uuid2"

\* the caller's request context and message
Context(c) == [request_id |-> c]
AppMsg(c) == [method |-> "work", args |-> [payload |-> c]]

\* _call, lines 629-638: the request curried into a '-reply' payload
CallPayload(c) ==
    [method |-> "-reply",
     args |-> [msg_id |-> MsgId(c), context |-> Marshal(Context(c)),
               topic |-> ReplyTopic, msg |-> <<Marshal(Context(c)), AppMsg(c)>>]]

\* InternalContext.reply, lines 298-304
ReplyPayload(msg_id, response) ==
    [method |-> "-process_reply", args |-> [msg_id |-> msg_id, response |-> response]]

NoOutcome == [kind |-> "none", value |-> PyNone, exc |-> ""]
Returned(v) == [kind |-> "return", value |-> v, exc |-> ""]
Raised(e) == [kind |-> "raise", value |-> PyNone, exc |-> e]

\* a remote exception re-raised locally
Remote(e) == [kind |-> "remote", value |-> PyNone, exc |-> e.class]

\* op and queues are the operation and what the matchmaker answered; the
\* rest is history: exit is the path on which the operation ended, reply the
\* frame _call received, spawned the hosts _multi_send spawned a _cast for,
\* sent the hosts a frame of this caller was sent to, and cast_error the
\* exception with which a spawned _cast of this caller died
IdleCaller == [pc |-> "idle", op |-> "none", queues |-> <<>>, outcome |-> NoOutcome,
               exit |-> "none", reply |-> NoFrame, spawned |-> {}, sent |-> {},
               cast_error |-> "none"]

InitCallers ==
    /\ caller = [c \in Callers |-> IdleCaller]
    /\ waiter = [c \in Callers |-> NoWaiter]
    /\ greenthreads = {}
    /\ pool = {}
    /\ handled = <<>>
    /\ injected = 0

\* ZmqSocket.close(): unsubscribe every filter, close the socket, forget it;
\* nothing happens on a socket that is already closed
ZmqSocket_close(w) ==
    IF w.state = "open"
    THEN [state |-> "closed", subscriptions |-> {}, connected |-> FALSE, inbox |-> <<>>]
    ELSE w

\* ZmqSocket(addr, zmq.SUB, subscribe=msg_id, bind=False) when connect succeeds.
\* subscribe() returns silently when setsockopt fails, leaving no filter.
ZmqSocket_open(msg_id, subscribed) ==
    [state |-> "open", subscriptions |-> IF subscribed THEN {msg_id} ELSE {},
     connected |-> FALSE, inbox |-> <<>>]

\* what ZmqClient(addr) and conn.cast do inside _cast: the frame is sent, the
\* socket cannot be opened (RPCException), send raises ZMQError (turned into
\* RPCException), or the send hangs until the Timeout of _cast fires
CastOutcomes == {"sent", "socket_failed", "zmq_error", "timeout"}
CastException(o) == IF o = "timeout" THEN "Timeout" ELSE "RPCException"

\* the indexes of queues for which _multi_send runs method: the loop body
\* returns in its first iteration
SendTargets(queues) == IF queues = <<>> THEN {} ELSE {1}

\* a _cast spawned with eventlet.spawn_n
CastTask(origin, kind, q, msg_id, payload) ==
    [origin |-> origin, kind |-> kind, addr |-> q.host,
     frame |-> Frame(msg_id, q.topic, Serialize(Marshal(Context(origin)), payload)),
     ok |-> PayloadRepresentable(payload)]

\* a _call that closes msg_waiter only after a reply was received
call_finally_replyOnly(w, path) == IF path = "reply" THEN ZmqSocket_close(w) ELSE w

\* _call, lines 666-668: the finally clause, run on every path out of the
\* try block once msg_waiter is bound
call_finally(w, path) == ZmqSocket_close(w)

\* a multicall that returns everything _call unpacked from the reply
call_result_whole(op, responses) ==
    IF responses.tag # "list" THEN Raised("TypeError")
    ELSE LET excs == {i \in 1..Len(responses.items) : HasExc(responses.items[i])}
             first == CHOOSE i \in excs : \A j \in excs : i <= j
             last == PyIndexLast(responses)
         IN IF excs # {}
            THEN Remote(DeserializeRemoteException(responses.items[first].d.exc))
            ELSE IF ~last.ok THEN Raised(last.exc)
            ELSE IF op = "multicall" THEN Returned(responses)
            ELSE LET data == PyIndexLast(last.value)
                 IN IF data.ok THEN Returned(data.value) ELSE Raised(data.exc)

\* _call, lines 674-678, then call (line 727) or multicall (line 721)
call_result(op, responses) ==
    IF responses.tag # "list" THEN Raised("TypeError")
    ELSE LET excs == {i \in 1..Len(responses.items) : HasExc(responses.items[i])}
             first == CHOOSE i \in excs : \A j \in excs : i <= j
             last == PyIndexLast(responses)
         IN IF excs # {}
            THEN Remote(DeserializeRemoteException(responses.items[first].d.exc))
            ELSE IF ~last.ok THEN Raised(last.exc)
            ELSE IF op = "multicall" THEN Returned(last.value)
            ELSE LET data == PyIndexLast(last.value)
                 IN IF data.ok THEN Returned(data.value) ELSE Raised(data.exc)

Done(c, outcome, path) ==
    [caller[c] EXCEPT !.pc = "done", !.outcome = outcome, !.exit = path]

\* _call, lines 616-668 up to the blocking recv: open the reply subscriber,
\* send the request with _cast, and either wait for the reply or leave
\* through the finally clause
call_start(c, op, queues) ==
    \E sock \in {"ok", "no_filter", "connect_failed"}, o \in CastOutcomes :
        IF sock = "connect_failed"
        THEN /\ caller' = [caller EXCEPT ![c] =
                    [Done(c, Raised("RPCException"), "open_failed") EXCEPT
                        !.op = op, !.queues = queues]]
             /\ UNCHANGED <<waiter, wire>>
        ELSE LET w == ZmqSocket_open(MsgId(c), sock = "ok")
                 q == queues[1]
             IN IF o = "sent"
                THEN /\ waiter' = [waiter EXCEPT ![c] = w]
                     /\ wire' = wire \cup {[addr |-> q.host,
                            frame |-> Frame("0", q.topic,
                                Serialize(Marshal(Context(c)), CallPayload(c)))]}
                     /\ caller' = [caller EXCEPT ![c].pc = "wait_reply", ![c].op = op,
                                                 ![c].queues = queues,
                                                 ![c].sent = {q.host}]
                ELSE /\ waiter' = [waiter EXCEPT ![c] = call_finally(w, "cast_failed")]
                     /\ caller' = [caller EXCEPT ![c] =
                            [Done(c, Raised(CastException(o)), "cast_failed") EXCEPT
                                !.op = op, !.queues = queues]]
                     /\ UNCHANGED wire

\* a _multi_send without the check for an empty matchmaker result: the loop
\* over queues runs zero times and the operation returns None
multi_send_noCheck(c, op, queues) ==
    /\ queues = <<>>
    /\ caller' = [caller EXCEPT ![c] =
            [Done(c, Returned(PyNone), "no_match") EXCEPT !.op = op, !.queues = queues]]
    /\ UNCHANGED <<waiter, wire, greenthreads>>

\* _multi_send, lines 681-712
multi_send(c, op, queues) ==
    IF queues = <<>>
    THEN /\ caller' = [caller EXCEPT ![c] =
                [Done(c, Raised("Timeout"), "no_match") EXCEPT !.op = op, !.queues = queues]]
         /\ UNCHANGED <<waiter, wire, greenthreads>>
    ELSE IF op \in {"cast", "fanout_cast"}
    THEN /\ greenthreads' = greenthreads \cup
                {CastTask(c, "request", queues[i], "0", AppMsg(c)) : i \in SendTargets(queues)}
         /\ caller' = [caller EXCEPT ![c] =
                [Done(c, Returned(PyNone), "spawned") EXCEPT
                    !.op = op, !.queues = queues,
                    !.spawned = {queues[i].host : i \in SendTargets(queues)}]]
         /\ UNCHANGED <<waiter, wire>>
    ELSE /\ call_start(c, op, queues)
         /\ UNCHANGED greenthreads

\* call, multicall, cast (lines 719-732) and fanout_cast (lines 735-739)
RpcStart(c, ops, hosts) ==
    /\ caller[c].pc = "idle"
    /\ \E op \in ops :
        LET topic == IF op = "fanout_cast"
                     THEN [ServiceTopic EXCEPT !.prefix = "fanout~"]
                     ELSE ServiceTopic
        IN \E queues \in MatchmakerResults(topic, hosts) : multi_send(c, op, queues)
    /\ UNCHANGED <<consumers, nframes, reactor_pc, pool, handled, injected>>
    /\ UNCHANGED relayVars
    /\ UNCHANGED mmVars
    /\ UNCHANGED restVars

\* the connection of msg_waiter to the ipc reply socket is established
WaiterConnect(c) ==
    /\ waiter[c].state = "open"
    /\ ~waiter[c].connected
    /\ ReplyKey \in DOMAIN out_sock
    /\ waiter' = [waiter EXCEPT ![c].connected = TRUE]
    /\ UNCHANGED <<wire, consumers, nframes>>
    /\ UNCHANGED relayVars
    /\ UNCHANGED rpcVars
    /\ UNCHANGED mmVars
    /\ UNCHANGED restVars

\* _call, lines 657-678: msg_waiter.recv() returned a message
CallRecv(c) ==
    /\ caller[c].pc = "wait_reply"
    /\ waiter[c].inbox # <<>>
    /\ LET msg == Head(waiter[c].inbox)
           payload == msg.body.msg
           malformed == ~IsJson(msg.body) \/ "args" \notin DOMAIN payload
                            \/ "response" \notin DOMAIN payload.args
           outcome == IF ~IsJson(msg.body) THEN Raised("ValueError")
                      ELSE IF malformed THEN Raised("RPCException")
                      ELSE call_result(caller[c].op, payload.args.response)
           path == IF malformed THEN "malformed" ELSE "reply"
       IN /\ caller' = [caller EXCEPT ![c] = [Done(c, outcome, path) EXCEPT !.reply = msg]]
          /\ waiter' = [waiter EXCEPT ![c] = call_finally(waiter[c], path)]
    /\ UNCHANGED <<wire, consumers, nframes, greenthreads, reactor_pc, pool, handled, injected>>
    /\ UNCHANGED relayVars
    /\ UNCHANGED mmVars
    /\ UNCHANGED restVars

\* _call, line 644: the response Timeout fires while recv blocks
CallTimeout(c) ==
    /\ caller[c].pc = "wait_reply"
    /\ caller' = [caller EXCEPT ![c] = Done(c, Raised("Timeout"), "timeout")]
    /\ waiter' = [waiter EXCEPT ![c] = call_finally(waiter[c], "timeout")]
    /\ UNCHANGED <<wire, consumers, nframes, greenthreads, reactor_pc, pool, handled, injected>>
    /\ UNCHANGED relayVars
    /\ UNCHANGED mmVars
    /\ UNCHANGED restVars

\* _call, lines 662-663: recv raises ZMQError
CallRecvError(c) ==
    /\ caller[c].pc = "wait_reply"
    /\ caller' = [caller EXCEPT ![c] = Done(c, Raised("RPCException"), "socket_error")]
    /\ waiter' = [waiter EXCEPT ![c] = call_finally(waiter[c], "socket_error")]
    /\ UNCHANGED <<wire, consumers, nframes, greenthreads, reactor_pc, pool, handled, injected>>
    /\ UNCHANGED relayVars
    /\ UNCHANGED mmVars
    /\ UNCHANGED restVars

\* a _cast spawned by _multi_send runs (lines 598-613); an exception ends the
\* green thread and reaches nobody
GreenCast(task) ==
    /\ task \in greenthreads
    /\ greenthreads' = greenthreads \ {task}
    /\ \E o \in CastOutcomes :
        IF task.ok /\ o = "sent"
        THEN /\ wire' = wire \cup {[addr |-> task.addr, frame |-> task.frame]}
             /\ caller' = IF task.kind = "request"
                          THEN [caller EXCEPT ![task.origin].sent = @ \cup {task.addr}]
                          ELSE caller
        ELSE /\ caller' = IF task.kind = "request"
                          THEN [caller EXCEPT ![task.origin].cast_error =
                                    IF task.ok THEN CastException(o) ELSE "TypeError"]
                          ELSE caller
             /\ UNCHANGED wire
    /\ UNCHANGED <<consumers, nframes, waiter, reactor_pc, pool, handled, injected>>
    /\ UNCHANGED relayVars
    /\ UNCHANGED mmVars
    /\ UNCHANGED restVars

\* ------------------------------------------------------------------------
\* ZmqReactor: the consumer side
\* ------------------------------------------------------------------------
\* ---------------------------------------------------------------------
\* The reactor's GreenPool
\* ---------------------------------------------------------------------
\* a pool that no run of the driver fills, and a small one
AmplePoolSize == 16
PoolSize == 3

NoTask == [proxy |-> ""]

\* a pool that has a free slot only while nothing runs in it
PoolFree_unlessEmpty(busy, size) == busy = 0

\* GreenPool.spawn and spawn_n start the green thread at once while fewer
\* than size green threads run in the pool; otherwise the caller waits in
\* them for a slot
PoolFree(busy, size) == busy < size

\* an inbound socket that is never taken as paired
Paired_never(m, id) == FALSE

\* `sock in self.mapping`, line 537
Paired(m, id) == id \in DOMAIN m

\* the green threads that run in the reactor's pool: the _consume loops
\* (pool.spawn, line 402) and the process() calls (pool.spawn_n, line 552)
PoolBusy ==
    Cardinality({id \in DOMAIN reactor_pc : reactor_pc[id] \in {"running", "spawn_wait"}})
        + Cardinality(pool)

\* ZmqReactor.consume, lines 533-553, for a socket without a paired out
\* socket: decode the message and spawn process() into the pool.  A message
\* that cannot be decoded raises out of consume and ends the _consume loop.
\* The spawned process() carries proxy = self.proxies[sock], the proxy that
\* was registered with the socket the message came in on.
\* For a socket with a paired out socket the raw message is sent on and
\* nothing else is done (lines 537-541).  pool.spawn_n starts process()
\* while the pool has a free slot; in a full pool the loop waits inside
\* spawn_n, holding the decoded request.
ReactorConsume(id) ==
    /\ id \in DOMAIN consumers
    /\ reactor_pc[id] = "running"
    /\ consumers[id].inbox # <<>>
    /\ LET data == Head(consumers[id].inbox)
           task == [proxy |-> id, ctx |-> Unmarshal(data.body.ctx), request |-> data.body.msg]
       IN /\ consumers' = [consumers EXCEPT ![id].inbox = Tail(@)]
          /\ IF Paired(mapping, id)
             THEN /\ mapping' = [mapping EXCEPT ![id].sent = Append(@, data)]
                  /\ UNCHANGED <<reactor_pc, pool, held>>
             ELSE IF ~IsJson(data.body)
             THEN /\ reactor_pc' = [reactor_pc EXCEPT ![id] = "dead"]
                  /\ UNCHANGED <<pool, held, mapping>>
             ELSE IF PoolFree(PoolBusy, pool_size)
             THEN /\ pool' = pool \cup {task}
                  /\ UNCHANGED <<reactor_pc, held, mapping>>
             ELSE /\ held' = [held EXCEPT ![id] = task]
                  /\ reactor_pc' = [reactor_pc EXCEPT ![id] = "spawn_wait"]
                  /\ UNCHANGED <<pool, mapping>>
    /\ UNCHANGED <<wire, nframes, waiter, caller, greenthreads, handled, injected>>
    /\ UNCHANGED relayVars
    /\ UNCHANGED mmVars
    /\ UNCHANGED <<handleVars, reg_last, globalVars, pool_size, closeVars>>
    /\ UNCHANGED sideVars

\* pool.spawn_n returns in a loop that waited for a slot: process() is
\* started and the loop goes on to receive
ReactorResume(id) ==
    /\ reactor_pc[id] = "spawn_wait"
    /\ PoolFree(PoolBusy, pool_size)
    /\ pool' = pool \cup {held[id]}
    /\ held' = [held EXCEPT ![id] = NoTask]
    /\ reactor_pc' = [reactor_pc EXCEPT ![id] = "running"]
    /\ UNCHANGED <<wire, consumers, nframes, waiter, caller, greenthreads, handled, injected>>
    /\ UNCHANGED relayVars
    /\ UNCHANGED mmVars
    /\ UNCHANGED <<handleVars, regVars, globalVars, pool_size, closeVars>>
    /\ UNCHANGED sideVars

\* `method = data.get('method')` is set and not empty (lines 329-330)
HasMethod(request) == "method" \in DOMAIN request /\ request.method # ""

\* a reactor that runs process() inside its consume loop: what the handler
\* raises ends the loop
AfterProcess_inline(pcs, b) ==
    IF b.kind \in {"raise", "client_exc"}
    THEN [id \in DOMAIN pcs |-> IF pcs[id] = "running" THEN "dead" ELSE pcs[id]]
    ELSE pcs

\* what the consume loop does with a handler run of process(): process runs
\* in its own green thread of the pool (spawn_n, line 552), so whatever it
\* raises ends that green thread only
AfterProcess(pcs, b) == pcs

\* ConsumerBase.process, lines 323-341, with InternalContext.reply and
\* _get_response for a '-reply' message
\* A request without a method is logged and dropped (lines 329-332); only
\* the method '-reply' goes to the private context (lines 336-338); every
\* other request goes to proxy.dispatch.
ProcessRun(task, behaviours) ==
    /\ task \in pool
    /\ pool' = pool \ {task}
    /\ IF ~HasMethod(task.request)
       THEN /\ log' = Logged(log, LogError("no_method", ServiceTopic))
            /\ UNCHANGED <<handled, reactor_pc, greenthreads>>
       ELSE
       LET origin == task.ctx.values.request_id
           isCall == task.request.method = "-reply"
       IN \E b \in behaviours, mm \in ReplyMatchmakerResults :
            /\ handled' = Append(handled, [origin |-> origin, call |-> isCall, behaviour |-> b,
                                           proxy |-> task.proxy, request |-> task.request])
            /\ reactor_pc' = AfterProcess(reactor_pc, b)
            /\ log' = IF isCall /\ b.kind = "raise"
                      THEN Logged(log, LogError("handler_exception", ServiceTopic))
                      ELSE log
            /\ IF isCall
               THEN LET args == task.request.args
                        response == reply_response(task.ctx, b)
                    IN greenthreads' = greenthreads \cup
                        {CastTask(origin, "reply", mm[i], args.msg_id,
                                  ReplyPayload(args.msg_id, response)) :
                            i \in SendTargets(mm)}
               ELSE /\ mm = <<>>
                    /\ UNCHANGED greenthreads
    /\ UNCHANGED <<wire, nframes, waiter, consumers, caller, injected>>
    /\ UNCHANGED <<proxy_pc, proxy_data, creation, topic_proxy, publisher, out_sock,
                   offered, dropped, drained>>
    /\ UNCHANGED mmVars
    /\ UNCHANGED restVars

\* a peer that saw the request of a waiting caller sends a reply frame that
\* is not JSON or has no 'args'; or a peer sends the service a frame that is
\* not JSON
NetInject ==
    /\ injected < MaxInject
    /\ injected' = injected + 1
    /\ \/ \E c \in Callers : \E body \in {[enc |-> "garbage"],
                Serialize(Marshal(Context(c)), [method |-> "-process_reply"])} :
            /\ caller[c].pc = "wait_reply"
            /\ wire' = wire \cup {[addr |-> LocalHost,
                                   frame |-> Frame(MsgId(c), ReplyTopic, body)]}
       \/ wire' = wire \cup {[addr |-> LocalHost,
                              frame |-> Frame("0", ServiceTopic, [enc |-> "garbage"])]}
    /\ UNCHANGED <<consumers, nframes, waiter, caller, greenthreads, reactor_pc, pool, handled>>
    /\ UNCHANGED relayVars
    /\ UNCHANGED mmVars
    /\ UNCHANGED restVars

\* ------------------------------------------------------------------------
\* MatchMakerRedis: the directory of live hosts kept in a Redis server
\* ------------------------------------------------------------------------
\* Names in the store are topic strings kept as their parts (see Topic):
\* the membership set of topic 'svc' is named 'svc', its members and their
\* liveness keys are named 'svc.<host>'.
KeyHost(key, host) == [key EXCEPT !.host = host]

\* the members a topic's set can have, and the topics queues() is asked for
MmMembers == {KeyHost(ServiceTopic, h) : h \in Hosts}
MmQueryTopics == {ServiceTopic, [ServiceTopic EXCEPT !.prefix = "fanout~"],
                  Topic("fanout~", ServiceTopic.name, LocalHost)}
                    \cup MmMembers

\* a python dict key: the tuple (key, host), or a plain string
PyTuple(key, host) == [tag |-> "tuple", key |-> key, host |-> host]

\* Redis TTL name: seconds to live, -1 for a key without expiry, and for a
\* key that does not exist -1 (servers before 2.8) or -2 (2.8 and later)
RedisTtl(keys, name) == IF name \in DOMAIN keys THEN keys[name] ELSE ttl_missing

\* Redis EXPIRE name seconds: 1 and the timeout is set when the key exists,
\* 0 and nothing happens when it does not
RedisExpire(keys, name, seconds) ==
    IF name \in DOMAIN keys
    THEN [ok |-> TRUE, keys |-> [keys EXCEPT ![name] = seconds]]
    ELSE [ok |-> FALSE, keys |-> keys]

\* Redis SET name '': the key holds the value and any timeout it had is gone
RedisSet(keys, name) == DictSet(keys, name, -1)
\* Redis DEL name
RedisDel(keys, name) == DictDel(keys, name)

\* Redis SMEMBERS / SADD / SREM: a set that loses its last member is gone
RedisSMembers(sets, name) == IF name \in DOMAIN sets THEN sets[name] ELSE {}
RedisSAdd(sets, name, member) == DictSet(sets, name, RedisSMembers(sets, name) \cup {member})
RedisSRem(sets, name, member) ==
    IF RedisSMembers(sets, name) \ {member} = {}
    THEN DictDel(sets, name)
    ELSE [sets EXCEPT ![name] = @ \ {member}]

\* one command queued in a redis pipeline
RedisCmd(cmd, name, member) == [cmd |-> cmd, name |-> name, member |-> member]

\* the server runs one command
RedisApply(store, c) ==
    CASE c.cmd = "SADD" -> [store EXCEPT !.sets = RedisSAdd(@, c.name, c.member)]
      [] c.cmd = "SREM" -> [store EXCEPT !.sets = RedisSRem(@, c.name, c.member)]
      [] c.cmd = "SET" -> [store EXCEPT !.keys = RedisSet(@, c.name)]
      [] c.cmd = "DEL" -> [store EXCEPT !.keys = RedisDel(@, c.name)]

RECURSIVE RedisApplyAll(_, _)
RedisApplyAll(store, cmds) ==
    IF cmds = <<>> THEN store ELSE RedisApplyAll(RedisApply(store, Head(cmds)), Tail(cmds))

\* a pipeline without MULTI: the server runs the commands one by one and
\* may serve other clients in between
pipe_execute_noMulti(keys, sets, cmds) ==
    RedisApply([keys |-> keys, sets |-> sets], Head(cmds)) @@ [rest |-> Tail(cmds)]

\* pipe.multi() ... pipe.execute(): the queued commands are sent as one
\* MULTI/EXEC transaction, which the server runs without serving any other
\* client in between; rest is what is still to run afterwards
pipe_execute(keys, sets, cmds) ==
    RedisApplyAll([keys |-> keys, sets |-> sets], cmds) @@ [rest |-> <<>>]

\* the commands MatchMakerRedis.expire (lines 116-117), backend_register
\* (lines 130-135) and backend_unregister (lines 142-143) queue
expire_pipeline(topic, host) ==
    <<RedisCmd("DEL", host, host), RedisCmd("SREM", topic, host)>>
backend_register_pipeline(key, key_host) ==
    <<RedisCmd("SADD", key, key_host), RedisCmd("SET", key_host, key_host)>>
backend_unregister_pipeline(key, key_host) ==
    <<RedisCmd("SREM", key, key_host), RedisCmd("DEL", key_host, key_host)>>

\* an ack_alive that writes the key again before it sets the timeout
ack_alive_setFirst(keys, key) == RedisExpire(RedisSet(keys, key), key, HeartbeatTtl)

\* MatchMakerRedis.ack_alive(key), lines 104-105
ack_alive(keys, key) == RedisExpire(keys, key, HeartbeatTtl)

\* MatchMakerRedis.expire(topic, host), lines 113-118: one MULTI/EXEC
expire(keys, sets, topic, host) ==
    LET r == pipe_execute(keys, sets, expire_pipeline(topic, host))
    IN [keys |-> r.keys, sets |-> r.sets]

\* MatchMakerRedis.is_alive(topic, host), lines 107-111: what it returns and
\* the store it leaves
is_alive(keys, sets, topic, host) ==
    IF RedisTtl(keys, host) = -1
    THEN [alive |-> FALSE] @@ expire(keys, sets, topic, host)
    ELSE [alive |-> TRUE, keys |-> keys, sets |-> sets]

\* MatchMakerRedis.backend_register(key, key_host), lines 127-137
backend_register(keys, sets, key, key_host) ==
    LET r == pipe_execute(keys, sets, backend_register_pipeline(key, key_host))
    IN [keys |-> r.keys, sets |-> r.sets]

\* the orders in which python can iterate over a set
IterationsOf(S) == {q \in SeqsOver(S, Cardinality(S)) :
                      Len(q) = Cardinality(S) /\ \A i, j \in 1..Len(q) : i # j => q[i] # q[j]}

\* zip(a, b)
Zip(a, b) == [i \in 1..(IF Len(a) < Len(b) THEN Len(a) ELSE Len(b)) |->
                 [topic |-> a[i], host |-> b[i]]]

\* RedisTopicExchange.run(topic), lines 57-71: every way the loop can go,
\* as [result, keys, sets]; srandmember picks any member
RECURSIVE RedisTopicExchange_run(_, _, _)
RedisTopicExchange_run(keys, sets, topic) ==
    IF RedisSMembers(sets, topic) = {}
    THEN {[result |-> <<>>, raised |-> "", keys |-> keys, sets |-> sets]}
    ELSE UNION {LET r == is_alive(keys, sets, topic, member_name)
                IN IF ~r.alive
                   THEN RedisTopicExchange_run(r.keys, r.sets, topic)
                   ELSE {[result |-> <<[topic |-> member_name, host |-> member_name.host]>>,
                          raised |-> "", keys |-> r.keys, sets |-> r.sets]} :
                member_name \in RedisSMembers(sets, topic)}

\* the store after is_alive(topic, host) was called for every host of hosts
RECURSIVE FilterAlive(_, _, _, _)
FilterAlive(keys, sets, topic, hosts) ==
    IF hosts = {}
    THEN [good |-> {}, keys |-> keys, sets |-> sets]
    ELSE LET host == CHOOSE h \in hosts : TRUE
             r == is_alive(keys, sets, topic, host)
             rest == FilterAlive(r.keys, r.sets, topic, hosts \ {host})
         IN [rest EXCEPT !.good = IF r.alive THEN @ \cup {host} ELSE @]

\* RedisFanoutExchange.run(topic), lines 79-86.  SMEMBERS of a name that
\* holds a string is an error of the server.  hosts and good_hosts are
\* python sets: zip pairs them in whatever order each is iterated.
RedisFanoutExchange_run(keys, sets, fanout_topic) ==
    LET topic == [fanout_topic EXCEPT !.prefix = ""]
        hosts == RedisSMembers(sets, topic)
        f == FilterAlive(keys, sets, topic, hosts)
    IN IF topic \in DOMAIN keys
       THEN {[result |-> <<>>, raised |-> "ResponseError", keys |-> keys, sets |-> sets]}
       ELSE {[result |-> Zip(hs, [i \in 1..Len(gs) |-> gs[i].host]), raised |-> "",
              keys |-> f.keys, sets |-> f.sets] :
                hs \in IterationsOf(hosts), gs \in IterationsOf(f.good)}

\* mm_common.DirectExchange.run(key): the topic names its host
DirectExchange_run(keys, sets, key) ==
    {[result |-> <<[topic |-> key, host |-> key.host]>>, raised |-> "",
      keys |-> keys, sets |-> sets]}

\* the bindings in another order: topic, direct, fanout
Bindings_topicFirst == <<"topic", "direct", "fanout">>

\* MatchMakerRedis.__init__, lines 100-102: the add_binding calls, in order
Bindings == <<"fanout", "direct", "topic">>

\* mm_common FanoutBinding, DirectBinding and TopicBinding: test(key)
BindingTest(kind, topic) ==
    CASE kind = "fanout" -> topic.prefix = "fanout~"
      [] kind = "direct" -> topic.host # ""
      [] kind = "topic" -> topic.host = ""

ExchangeRun(kind, keys, sets, topic) ==
    CASE kind = "fanout" -> RedisFanoutExchange_run(keys, sets, topic)
      [] kind = "direct" -> DirectExchange_run(keys, sets, topic)
      [] kind = "topic" -> RedisTopicExchange_run(keys, sets, topic)

\* MatchMakerBase.queues(key): the bindings are tested in the order they were
\* added and the exchange of the first whose test passes answers
queues(bindings, keys, sets, topic) ==
    LET matching == {i \in 1..Len(bindings) : BindingTest(bindings[i], topic)}
        first == CHOOSE i \in matching : \A j \in matching : i <= j
    IN IF matching = {}
       THEN {[strategy |-> "none", result |-> <<>>, raised |-> "", keys |-> keys, sets |-> sets]}
       ELSE {[strategy |-> bindings[first]] @@ r :
                r \in ExchangeRun(bindings[first], keys, sets, topic)}

\* what mm_last records of an operation
MmOp(op, arg, strategy, result, ok, raised) ==
    [op |-> op, arg |-> arg, strategy |-> strategy, result |-> result, ok |-> ok,
     raised |-> raised]

\* the clients of the directory: matchmakers of two hosts
Clients == {"a", "b"}

\* ---------------------------------------------------------------------
\* ZmqSocket: the handle around one ZeroMQ socket
\* ---------------------------------------------------------------------

MaxSubs == 3

SockKinds == {"PUSH", "PULL", "PUB", "SUB"}
Filters == {"f", "g"}

\* the capabilities ZmqSocket.__init__ derives from the kind
can_send_any(kind) == TRUE
can_recv(kind) == kind \in {"PULL", "SUB"}
can_send(kind) == kind \in {"PUSH", "PUB"}
can_sub(kind) == kind \in {"SUB"}

\* no handle: none was constructed, or the constructor raised
NoSocket ==
    [kind |-> "none", sock |-> "none", subscriptions |-> <<>>,
     filters |-> [f \in Filters |-> 0]]

\* what an operation on the handle did: the handle afterwards, the calls it
\* made on the native socket, in order, what it raised and what it logged
SockOutcome(op, arg, h, native, raised, logged) ==
    [op |-> op, arg |-> arg, h |-> h, native |-> native, raised |-> raised,
     logged |-> logged]

NoSockOutcome == SockOutcome("none", "", NoSocket, <<>>, "none", "none")

\* list.remove(x): the first occurrence goes
RECURSIVE ListRemove(_, _)
ListRemove(l, x) ==
    IF l = <<>> THEN <<>>
    ELSE IF Head(l) = x THEN Tail(l)
    ELSE <<Head(l)>> \o ListRemove(Tail(l), x)

InList(l, x) == \E i \in 1..Len(l) : l[i] = x

\* setsockopt(SUBSCRIBE, f) and setsockopt(UNSUBSCRIBE, f) on the native
\* socket: it keeps one instance of a filter per SUBSCRIBE and an UNSUBSCRIBE
\* removes one instance
NativeSubscribe(filters, f) == [filters EXCEPT ![f] = @ + 1]
NativeUnsubscribe(filters, f) == [filters EXCEPT ![f] = IF @ > 0 THEN @ - 1 ELSE 0]

RECURSIVE NativeUnsubscribeAll(_, _)
NativeUnsubscribeAll(filters, l) ==
    IF l = <<>> THEN filters
    ELSE NativeUnsubscribeAll(NativeUnsubscribe(filters, Head(l)), Tail(l))

\* ZmqSocket.subscribe; failed: setsockopt raises
Handle_subscribe(h, f, failed) ==
    IF ~can_sub(h.kind)
    THEN SockOutcome("subscribe", f, h, <<>>, "RPCException: Cannot subscribe on this socket.", "none")
    ELSE IF h.sock = "none" \/ failed
    THEN SockOutcome("subscribe", f, h, <<>>, "none", "none")
    ELSE SockOutcome("subscribe", f,
                 [h EXCEPT !.subscriptions = Append(@, f),
                           !.filters = NativeSubscribe(@, f)],
                 <<[call |-> "SUBSCRIBE", arg |-> f]>>, "none", "none")

RECURSIVE SubscribeAll(_, _)
SubscribeAll(o, l) ==
    IF l = <<>> \/ o.raised # "none" THEN o
    ELSE LET n == Handle_subscribe(o.h, Head(l), FALSE)
         IN SubscribeAll([n EXCEPT !.native = o.native \o @], Tail(l))

\* ZmqSocket.__init__; failed: bind or connect raises
Handle_init(kind, do_sub, failed) ==
    LET h == [NoSocket EXCEPT !.kind = kind, !.sock = "open"]
        o == SubscribeAll(SockOutcome("init", kind, h, <<>>, "none", "none"), do_sub)
    IN IF o.raised # "none" THEN [o EXCEPT !.op = "init", !.arg = kind, !.h = NoSocket]
       ELSE IF failed
       THEN SockOutcome("init", kind, NoSocket, o.native, "RPCException: Could not open socket.", "none")
       ELSE [o EXCEPT !.op = "init", !.arg = kind,
                      !.native = @ \o <<[call |-> "bind", arg |-> ""]>>]

\* ZmqSocket.unsubscribe; failed: setsockopt raises
Handle_unsubscribe(h, f, failed) ==
    IF ~InList(h.subscriptions, f)
    THEN SockOutcome("unsubscribe", f, h, <<>>, "none", "none")
    ELSE IF failed
    THEN SockOutcome("unsubscribe", f, h, <<>>, "ZMQError", "none")
    ELSE SockOutcome("unsubscribe", f,
                 [h EXCEPT !.subscriptions = ListRemove(@, f),
                           !.filters = NativeUnsubscribe(@, f)],
                 <<[call |-> "UNSUBSCRIBE", arg |-> f]>>, "none", "none")

\* a close that releases the socket and keeps the list of subscriptions
Handle_close_keepList(h, failed) ==
    IF h.sock = "none"
    THEN SockOutcome("close", "", h, <<>>, "none", "none")
    ELSE SockOutcome("close", "", [h EXCEPT !.sock = "none"],
                 <<[call |-> "close", arg |-> ""]>>, "none", "none")

\* ZmqSocket.close; failed: the native close raises
Handle_close(h, failed) ==
    IF h.sock = "none"
    THEN SockOutcome("close", "", h, <<>>, "none", "none")
    ELSE SockOutcome("close", "",
                 [h EXCEPT !.subscriptions = <<>>,
                           !.filters = NativeUnsubscribeAll(@, h.subscriptions),
                           !.sock = "none"],
                 [i \in 1..Len(h.subscriptions) |->
                     [call |-> "UNSUBSCRIBE", arg |-> h.subscriptions[i]]]
                   \o <<[call |-> "close", arg |-> ""]>>,
                 "none",
                 IF failed THEN "ZeroMQ socket could not be closed." ELSE "none")

\* ZmqSocket.recv
Handle_recv(h) ==
    IF ~can_recv(h.kind)
    THEN SockOutcome("recv", "", h, <<>>, "RPCException: You cannot recv on this socket.", "none")
    ELSE IF h.sock = "none"
    THEN SockOutcome("recv", "", h, <<>>, "AttributeError", "none")
    ELSE SockOutcome("recv", "", h, <<[call |-> "recv_multipart", arg |-> ""]>>, "none", "none")

\* ZmqSocket.send
Handle_send(h) ==
    IF ~can_send(h.kind)
    THEN SockOutcome("send", "", h, <<>>, "RPCException: You cannot send on this socket.", "none")
    ELSE IF h.sock = "none"
    THEN SockOutcome("send", "", h, <<>>, "AttributeError", "none")
    ELSE SockOutcome("send", "", h, <<[call |-> "send_multipart", arg |-> ""]>>, "none", "none")

\* ---------------------------------------------------------------------
\* ZmqBaseReactor.register
\* ---------------------------------------------------------------------
NoAddr == ""
OutAddr == "ipc://out"
NoFilter == [tag |-> "none"]

\* subscribe=None, or one filter (lines 126-130)
DoSub(subscribe) == IF subscribe = NoFilter THEN {} ELSE {subscribe.s}

RegOutcome(r, m, raised) == [consumers |-> r, mapping |-> m, raised |-> raised]

\* a register that takes any outbound kind
register_anyOut(r, m, id, key, zmq_type_in, out_addr, zmq_type_out, subscribe, failed) ==
    IF zmq_type_in \notin {"PULL", "SUB"}
    THEN RegOutcome(r, m, "RPCException: Bad input socktype")
    ELSE IF subscribe # NoFilter /\ ~can_sub(zmq_type_in)
    THEN RegOutcome(r, m, "RPCException: Cannot subscribe on this socket.")
    ELSE IF failed = "in"
    THEN RegOutcome(r, m, "RPCException: Could not open socket.")
    ELSE LET inq == [key |-> key, type |-> zmq_type_in, subscriptions |-> DoSub(subscribe),
                     connected |-> FALSE, inbox |-> <<>>]
             r1 == DictSet(r, id, inq)
         IN IF out_addr = NoAddr THEN RegOutcome(r1, m, "none")
            ELSE IF failed = "out"
            THEN RegOutcome(r1, m, "RPCException: Could not open socket.")
            ELSE RegOutcome(r1, DictSet(m, id, [type |-> zmq_type_out, sent |-> <<>>]), "none")

\* ZmqBaseReactor.register(proxy, in_addr, zmq_type_in, out_addr,
\* zmq_type_out, in_bind=False, out_bind=True, subscribe), lines 362-393.
\* r: the inbound sockets registered so far (proxies and sockets), m: the
\* pairs (mapping).  failed: which ZmqSocket, if any, cannot bind or connect.
register(r, m, id, key, zmq_type_in, out_addr, zmq_type_out, subscribe, failed) ==
    IF zmq_type_in \notin {"PULL", "SUB"}
    THEN RegOutcome(r, m, "RPCException: Bad input socktype")
    ELSE IF subscribe # NoFilter /\ ~can_sub(zmq_type_in)
    THEN RegOutcome(r, m, "RPCException: Cannot subscribe on this socket.")
    ELSE IF failed = "in"
    THEN RegOutcome(r, m, "RPCException: Could not open socket.")
    ELSE LET inq == [key |-> key, type |-> zmq_type_in, subscriptions |-> DoSub(subscribe),
                     connected |-> FALSE, inbox |-> <<>>]
             r1 == DictSet(r, id, inq)
         IN IF out_addr = NoAddr THEN RegOutcome(r1, m, "none")
            ELSE IF zmq_type_out \notin {"PUSH", "PUB"}
            THEN RegOutcome(r1, m, "RPCException: Bad output socktype")
            ELSE IF failed = "out"
            THEN RegOutcome(r1, m, "RPCException: Could not open socket.")
            ELSE RegOutcome(r1, DictSet(m, id, [type |-> zmq_type_out, sent |-> <<>>]), "none")

NoRegister ==
    [id |-> "", zmq_type_in |-> "", out_addr |-> NoAddr, zmq_type_out |-> "",
     subscribe |-> NoFilter, failed |-> "", raised |-> "none"]

\* ---------------------------------------------------------------------
\* The module globals ZMQ_CTX and matchmaker
\* ---------------------------------------------------------------------
MaxCleanups == 2

GreenThreads == {"g1", "g2"}

\* object identities: the n-th object created; 0 stands for None
NextId(what) == Cardinality({m \in made : m.what = what}) + 1

\* a getter that builds a new object at every call
memoized_always(global, fresh) == fresh

\* `if not X: X = <new object>`: what the global holds after a getter
memoized(global, fresh) == IF global = 0 THEN fresh ELSE global

Made(what, before, after) ==
    IF after # before THEN {[what |-> what, obj |-> after, cleanups |-> cleanups]} ELSE {}

\* the consume loops of one ZmqProxy: one per registered inbound socket
Loops == {"l1", "l2"}

\* the clock when the cache is made, in seconds since the epoch
StartTs == 10

\* python None as a cached value or a default
CacheNone == [none |-> TRUE]

\* no cache operation yet
NoCacheOp == [op |-> "none", key |-> "", present |-> FALSE, timeout |-> 0,
              result |-> CacheNone, raised |-> "none"]

\* a directory client that is not inside is_alive
IdleLookup == [pc |-> "idle", host |-> NoFrame.topic]

\* a green thread that is not inside _cast
IdleCast == [pc |-> "idle", addr |-> "", conn |-> 0]

\* the library with a pool of the given size and nothing else in use
InitRestWith(size) ==
    /\ pipe = [c \in Clients |-> <<>>]
    /\ pool_size = size
    /\ held = [id \in {"k1", "k2"} |-> NoTask]
    /\ closed = {}
    /\ closed_socks = [proxy |-> {}, reactor |-> {}]
    /\ handled_at_close = 0
    /\ zsock = NoSocket
    /\ zlast = NoSockOutcome
    /\ mapping = EmptyDict
    /\ reg_last = NoRegister
    /\ ZMQ_CTX = 0
    /\ matchmaker = 0
    /\ made = {}
    /\ uses = {}
    /\ cleanups = 0
    /\ cast_pc = [g \in GreenThreads |-> IdleCast]
    /\ outq = <<>>
    /\ cast_log = <<>>
    /\ zp_pc = [l \in Loops |-> "recv"]
    /\ zp_data = [l \in Loops |-> NoFrame]
    /\ wait_sock_creation = [l \in Loops |-> "none"]
    /\ zp_publishers = <<>>
    /\ zp_queues = <<>>
    /\ zp_topic_proxy = EmptyDict
    /\ zp_sockets = <<>>
    /\ zp_received = 0
    /\ zp_lost = <<>>
    /\ is_alive_pc = [c \in Clients |-> IdleLookup]
    /\ evicted = {}
    /\ cache = EmptyDict
    /\ keys_expires = EmptyDict
    /\ utcnow_ts = StartTs
    /\ cache_last = NoCacheOp

\* nothing else of the library is in use
InitRest == InitRestWith(AmplePoolSize)

\* before MatchMakerRedis is constructed
InitMatchmaker ==
    /\ mm_bindings = <<>>
    /\ ttl_missing = 0
    /\ redis_keys = EmptyDict
    /\ redis_sets = EmptyDict
    /\ host_topic = {}
    /\ mm_last = MmOp("none", NoFrame.topic, "", <<>>, TRUE, "")

\* MatchMakerRedis.__init__, lines 93-102: connect to a server, of a version
\* before 2.8 or not, and add the three bindings
MatchMakerRedis_init ==
    /\ mm_bindings = <<>>
    /\ mm_bindings' = Bindings
    /\ ttl_missing' \in {-1, -2}
    /\ mm_last' = MmOp("init", NoFrame.topic, "", <<>>, TRUE, "")
    /\ UNCHANGED <<redis_keys, redis_sets, host_topic>>
    /\ UNCHANGED zmqVars
    /\ UNCHANGED restVars

\* HeartbeatMatchMakerBase.register(key, host): remember (key, host) in
\* host_topic and call backend_register(key, key + '.' + host)
MmRegister(key, host) ==
    /\ mm_bindings # <<>>
    /\ host_topic' = host_topic \cup {PyTuple(key, host)}
    /\ LET r == backend_register(redis_keys, redis_sets, key, KeyHost(key, host))
       IN /\ redis_keys' = r.keys
          /\ redis_sets' = r.sets
    /\ mm_last' = MmOp("register", KeyHost(key, host), "", <<>>, TRUE, "")
    /\ UNCHANGED <<mm_bindings, ttl_missing>>
    /\ UNCHANGED zmqVars
    /\ UNCHANGED restVars

\* a call of ack_alive(key)
MmAckAlive(key) ==
    /\ mm_bindings # <<>>
    /\ LET r == ack_alive(redis_keys, key)
       IN /\ redis_keys' = r.keys
          /\ mm_last' = MmOp("ack_alive", key, "", <<>>, r.ok, "")
    /\ UNCHANGED <<mm_bindings, ttl_missing, redis_sets, host_topic>>
    /\ UNCHANGED zmqVars
    /\ UNCHANGED restVars

\* a call of queues(topic)
MmQueues(topic) ==
    /\ mm_bindings # <<>>
    /\ \E r \in queues(mm_bindings, redis_keys, redis_sets, topic) :
        /\ redis_keys' = r.keys
        /\ redis_sets' = r.sets
        /\ mm_last' = MmOp("queues", topic, r.strategy, r.result, r.raised = "", r.raised)
    /\ UNCHANGED <<mm_bindings, ttl_missing, host_topic>>
    /\ UNCHANGED zmqVars
    /\ UNCHANGED restVars

\* MatchMakerRedis.send_heartbeats(), lines 120-125, iterating host_topic in
\* the order q.  The keys of host_topic are (key, host) tuples, so the lookup
\* self.host_topic[host] by the host string finds an entry only if a string
\* key was stored.
RECURSIVE send_heartbeats(_, _, _, _)
send_heartbeats(keys, sets, ht, q) ==
    IF q = <<>>
    THEN [raised |-> "", keys |-> keys, sets |-> sets]
    ELSE LET key == Head(q).key
             host == Head(q).host
             success == ack_alive(keys, KeyHost(key, host))
         IN IF success.ok
            THEN send_heartbeats(success.keys, sets, ht, Tail(q))
            ELSE IF PyStr(host) \notin ht
            THEN [raised |-> "KeyError", keys |-> keys, sets |-> sets]
            ELSE LET r == backend_register(keys, sets, key, KeyHost(key, host))
                 IN send_heartbeats(r.keys, r.sets, ht, Tail(q))

\* a call of send_heartbeats()
MmSendHeartbeats ==
    /\ mm_bindings # <<>>
    /\ \E q \in IterationsOf(host_topic) :
        LET r == send_heartbeats(redis_keys, redis_sets, host_topic, q)
        IN /\ redis_keys' = r.keys
           /\ redis_sets' = r.sets
           /\ mm_last' = MmOp("send_heartbeats", NoFrame.topic, "", <<>>, r.raised = "", r.raised)
    /\ UNCHANGED <<mm_bindings, ttl_missing, host_topic>>
    /\ UNCHANGED zmqVars
    /\ UNCHANGED restVars

\* the clock of the store advances: every key with a timeout has one tick
\* less to live, and a key whose time is up is deleted
RedisTick ==
    /\ \E name \in DOMAIN redis_keys : redis_keys[name] > 0
    /\ redis_keys' = [name \in {n \in DOMAIN redis_keys : redis_keys[n] # 1} |->
                         IF redis_keys[name] > 0 THEN redis_keys[name] - 1 ELSE redis_keys[name]]
    /\ mm_last' = MmOp("tick", NoFrame.topic, "", <<>>, TRUE, "")
    /\ UNCHANGED <<mm_bindings, ttl_missing, redis_sets, host_topic>>
    /\ UNCHANGED zmqVars
    /\ UNCHANGED restVars

\* the directory restarts and has lost all its data
RedisRestart ==
    /\ DOMAIN redis_keys # {} \/ DOMAIN redis_sets # {}
    /\ redis_keys' = EmptyDict
    /\ redis_sets' = EmptyDict
    /\ mm_last' = MmOp("restart", NoFrame.topic, "", <<>>, TRUE, "")
    /\ UNCHANGED <<mm_bindings, ttl_missing, host_topic>>
    /\ UNCHANGED zmqVars
    /\ UNCHANGED restVars


\* ------------------------------------------------------------------------
\* The relay on its own: the network delivers arbitrary frames
\* ------------------------------------------------------------------------
RelayTopics == {Topic("", "svc", ""), Topic("", "svc", LocalHost),
                Topic("", "svc", RemoteHost), Topic("fanout~", "svc", "")}

\* a peer's ZmqClient.cast reaches the relay's tcp PULL socket
NetSend ==
    /\ nframes < MaxFrames
    /\ \E t \in RelayTopics :
        wire' = wire \cup {[addr |-> LocalHost,
                            frame |-> Frame("0", t, [enc |-> "raw", n |-> nframes + 1])]}
    /\ nframes' = nframes + 1
    /\ UNCHANGED <<consumers, waiter>>
    /\ UNCHANGED relayVars
    /\ UNCHANGED rpcVars
    /\ UNCHANGED mmVars
    /\ UNCHANGED restVars

\* the state after ZmqProxy.__init__, register and consume_in_thread
InitProxy ==
    /\ wire = {}
    /\ proxy_pc = "recv"
    /\ proxy_data = NoFrame
    /\ creation = "none"
    /\ topic_proxy = EmptyDict
    /\ publisher = EmptyDict
    /\ out_sock = EmptyDict
    /\ log = EmptyBag
    /\ offered = EmptyDict
    /\ dropped = EmptyDict
    /\ drained = EmptyDict
    /\ nframes = 0

InitRelay ==
    /\ InitRest
    /\ InitMatchmaker
    /\ InitProxy
    /\ consumers = EmptyDict
    /\ InitCallers
    /\ reactor_pc = [id \in ConsumerIds |-> "idle"]

RelayKeys == {SplitBase(t) : t \in RelayTopics}

NextRelay ==
    \/ NetSend
    \/ ProxyRecv
    \/ \E key \in RelayKeys : PublisherOpen(key)
    \/ \E key \in RelayKeys : PublisherSettle(key)
    \/ ProxyResume
    \/ ProxyCreateFailed
    \/ \E key \in RelayKeys : PublisherRelay(key)
    \/ \E key \in RelayKeys : PublisherUnblock(key)
    \/ \E t \in {Topic("", "svc", LocalHost)}, fanout \in BOOLEAN :
          create_consumer("k1", t, fanout)
    \/ \E id \in ConsumerIds : ConsumerConnect(id)

SpecRelay == InitRelay /\ [][NextRelay]_vars

\* eventlet runs every runnable green thread: the publisher's creation steps
\* and the relay's resumption are never postponed for ever.  Nothing makes a
\* blocked ipc send proceed, a peer connect, or the network deliver.
FairSpecRelay ==
    /\ SpecRelay
    /\ \A key \in RelayKeys : WF_vars(PublisherOpen(key)) /\ WF_vars(PublisherSettle(key))
    /\ WF_vars(ProxyResume)
    /\ WF_vars(ProxyCreateFailed)

\* ------------------------------------------------------------------------
\* The relay and the consumers of one topic: peers cast to the topic, plain
\* and fanout, and up to two consumers attach to it
\* ------------------------------------------------------------------------
FanoutTopic == [ServiceTopic EXCEPT !.prefix = "fanout~"]
ConsumerKeys == {ServiceTopic, FanoutTopic}

\* the n-th cast of the peers: its context and its message
CastMsg(n) == [method |-> "work", args |-> [payload |-> n]]
CastFrame(t, n) == Frame("0", t, Serialize(Marshal([request_id |-> "peer"]), CastMsg(n)))

\* a peer's _cast of a new message reaches the relay's tcp PULL socket, under
\* the topic the matchmaker gave it: 'svc.<host>' or 'fanout~svc.<host>'
PeerCast ==
    /\ nframes < MaxCasts
    /\ \E t \in {[k EXCEPT !.host = LocalHost] : k \in ConsumerKeys} :
        wire' = wire \cup {[addr |-> LocalHost, frame |-> CastFrame(t, nframes + 1)]}
    /\ nframes' = nframes + 1
    /\ UNCHANGED <<consumers, waiter>>
    /\ UNCHANGED relayVars
    /\ UNCHANGED rpcVars
    /\ UNCHANGED mmVars
    /\ UNCHANGED restVars

\* Connection.consume_in_thread of the connection that registered the
\* consumer: ZmqBaseReactor.consume_in_thread spawns the _consume loop of the
\* registered socket
consume_in_thread(id) ==
    /\ id \in DOMAIN consumers
    /\ reactor_pc[id] = "idle"
    /\ PoolFree(PoolBusy, pool_size)
    /\ reactor_pc' = [reactor_pc EXCEPT ![id] = "running"]
    /\ UNCHANGED <<wire, consumers, nframes, waiter, caller, greenthreads, pool, handled,
                   injected>>
    /\ UNCHANGED relayVars
    /\ UNCHANGED mmVars
    /\ UNCHANGED restVars

\* the handler of the consumers: it returns a value
CastBehaviours == {b \in Behaviours :
    b.kind = "return" /\ b.result.tag = "dict" /\ "status" \in DOMAIN b.result.d}

NextConsumers ==
    \/ PeerCast
    \/ ProxyRecv
    \/ \E key \in ConsumerKeys : PublisherOpen(key)
    \/ \E key \in ConsumerKeys : PublisherSettle(key)
    \/ ProxyResume
    \/ ProxyCreateFailed
    \/ \E key \in ConsumerKeys : PublisherRelay(key)
    \/ \E key \in ConsumerKeys : PublisherUnblock(key)
    \/ \E id \in ConsumerIds, fanout \in BOOLEAN :
          create_consumer(id, [ServiceTopic EXCEPT !.host = LocalHost], fanout)
    \/ \E id \in ConsumerIds : ConsumerConnect(id)
    \/ \E id \in ConsumerIds : consume_in_thread(id)
    \/ \E id \in ConsumerIds : ReactorConsume(id)
    \/ \E task \in pool : ProcessRun(task, CastBehaviours)

SpecConsumers == InitRelay /\ [][NextConsumers]_vars

\* ------------------------------------------------------------------------
\* The Redis matchmaker on its own
\* ------------------------------------------------------------------------
\* a client starts expire(), backend_register() or backend_unregister() for
\* a host of the topic: the commands are queued in its pipeline, nothing is
\* sent yet
ClientQueue(c, op, key, host) ==
    /\ pipe[c] = <<>>
    /\ pipe' = [pipe EXCEPT ![c] =
            CASE op = "expire" -> expire_pipeline(key, KeyHost(key, host))
              [] op = "backend_register" -> backend_register_pipeline(key, KeyHost(key, host))
              [] op = "backend_unregister" -> backend_unregister_pipeline(key, KeyHost(key, host))]
    /\ UNCHANGED <<zsock, zlast>>
    /\ UNCHANGED regVars
    /\ UNCHANGED globalVars
    /\ UNCHANGED poolVars
    /\ UNCHANGED closeVars
    /\ UNCHANGED sideVars
    /\ UNCHANGED zmqVars
    /\ UNCHANGED mmVars

\* pipe.execute() of a client reaches the server
ClientExecute(c) ==
    /\ pipe[c] # <<>>
    /\ LET r == pipe_execute(redis_keys, redis_sets, pipe[c])
       IN /\ redis_keys' = r.keys
          /\ redis_sets' = r.sets
          /\ pipe' = [pipe EXCEPT ![c] = r.rest]
    /\ UNCHANGED <<zsock, zlast>>
    /\ UNCHANGED regVars
    /\ UNCHANGED globalVars
    /\ UNCHANGED poolVars
    /\ UNCHANGED closeVars
    /\ UNCHANGED sideVars
    /\ UNCHANGED <<mm_bindings, ttl_missing, host_topic, mm_last>>
    /\ UNCHANGED zmqVars

\* an operation on the handle ends with the outcome o
SockDone(o) ==
    /\ zsock' = o.h
    /\ zlast' = o
    /\ UNCHANGED pipe
    /\ UNCHANGED regVars
    /\ UNCHANGED globalVars
    /\ UNCHANGED poolVars
    /\ UNCHANGED closeVars
    /\ UNCHANGED sideVars
    /\ UNCHANGED zmqVars
    /\ UNCHANGED mmVars

\* ZmqSocket(addr, kind, subscribe=...)
SockInit(kind, do_sub, failed) ==
    /\ zsock = NoSocket
    /\ SockDone(Handle_init(kind, do_sub, failed))

SockSubscribe(f, failed) ==
    /\ zsock # NoSocket
    /\ Len(zsock.subscriptions) < MaxSubs
    /\ SockDone(Handle_subscribe(zsock, f, failed))

SockUnsubscribe(f, failed) ==
    /\ zsock # NoSocket
    /\ SockDone(Handle_unsubscribe(zsock, f, failed))

SockClose(failed) ==
    /\ zsock # NoSocket
    /\ SockDone(Handle_close(zsock, failed))

SockRecv ==
    /\ zsock # NoSocket
    /\ SockDone(Handle_recv(zsock))

SockSendData ==
    /\ zsock # NoSocket
    /\ SockDone(Handle_send(zsock))

\* the messages a peer sends to a reactor's socket: a cast, a request whose
\* method starts with '-' and is not '-reply', a request without method
PeerMsgs(n) ==
    {CastMsg(n), [method |-> "-foo", args |-> [payload |-> n]], [args |-> [payload |-> n]]}

PeerBodies(n) ==
    {Serialize(Marshal([request_id |-> "peer"]), m) : m \in PeerMsgs(n)}
        \cup {[enc |-> "garbage"]}

\* a message of a peer arrives on a registered inbound socket
Arrive(id, body) ==
    /\ id \in DOMAIN consumers
    /\ nframes < MaxCasts
    /\ nframes' = nframes + 1
    /\ consumers' = [consumers EXCEPT ![id].inbox =
            Append(@, Frame("0", [consumers[id].key EXCEPT !.host = LocalHost], body))]
    /\ UNCHANGED <<wire, waiter>>
    /\ UNCHANGED relayVars
    /\ UNCHANGED rpcVars
    /\ UNCHANGED mmVars
    /\ UNCHANGED restVars

\* ZmqBaseReactor.close() of the relay, lines 410-415: self.sockets holds the
\* tcp socket and the ipc sockets the publishers have appended so far, all
\* are closed; self.threads holds the _consume loop, it is killed.  The
\* publishers were started with eventlet.spawn (line 475) and are in no
\* list.
ProxyClose ==
    /\ "proxy" \notin closed
    /\ closed' = closed \cup {"proxy"}
    /\ closed_socks' = [closed_socks EXCEPT !.proxy = @ \cup DOMAIN out_sock]
    /\ proxy_pc' = "killed"
    /\ proxy_data' = NoFrame
    /\ consumers' = [id \in DOMAIN consumers |->
            IF consumers[id].key \in DOMAIN out_sock
            THEN [consumers[id] EXCEPT !.connected = FALSE]
            ELSE consumers[id]]
    /\ UNCHANGED <<creation, topic_proxy, publisher, out_sock, log, offered, dropped, drained>>
    /\ UNCHANGED <<wire, nframes, waiter>>
    /\ UNCHANGED rpcVars
    /\ UNCHANGED mmVars
    /\ UNCHANGED <<handleVars, regVars, globalVars, poolVars, handled_at_close>>
    /\ UNCHANGED sideVars

\* ZmqBaseReactor.close() of the reactor of a Connection, lines 410-415: the
\* registered sockets are closed and the _consume loops are killed, also one
\* that waits in spawn_n.  The process() calls were started with
\* pool.spawn_n (line 552) and are in no list.
ReactorClose ==
    /\ "reactor" \notin closed
    /\ closed' = closed \cup {"reactor"}
    /\ closed_socks' = [closed_socks EXCEPT !.reactor = @ \cup DOMAIN consumers]
    /\ consumers' = [id \in DOMAIN consumers |->
            [consumers[id] EXCEPT !.connected = FALSE, !.inbox = <<>>]]
    /\ reactor_pc' = [id \in DOMAIN reactor_pc |->
            IF reactor_pc[id] = "idle" THEN "idle" ELSE "killed"]
    /\ held' = [id \in DOMAIN held |-> NoTask]
    /\ handled_at_close' = Len(handled)
    /\ UNCHANGED <<wire, nframes, waiter, caller, greenthreads, pool, handled, injected>>
    /\ UNCHANGED relayVars
    /\ UNCHANGED mmVars
    /\ UNCHANGED <<handleVars, regVars, globalVars, pool_size>>
    /\ UNCHANGED sideVars

\* reactor.register(...) for a socket on the ipc address of a topic
Register(id, key, zmq_type_in, out_addr, zmq_type_out, subscribe, failed) ==
    /\ id \notin DOMAIN consumers
    /\ LET o == register(consumers, mapping, id, key, zmq_type_in, out_addr, zmq_type_out,
                         subscribe, failed)
       IN /\ consumers' = o.consumers
          /\ mapping' = o.mapping
          /\ reg_last' = [id |-> id, zmq_type_in |-> zmq_type_in, out_addr |-> out_addr,
                          zmq_type_out |-> zmq_type_out, subscribe |-> subscribe,
                          failed |-> failed, raised |-> o.raised]
    /\ UNCHANGED <<wire, nframes, waiter>>
    /\ UNCHANGED relayVars
    /\ UNCHANGED rpcVars
    /\ UNCHANGED mmVars
    /\ UNCHANGED handleVars
    /\ UNCHANGED globalVars
    /\ UNCHANGED poolVars
    /\ UNCHANGED closeVars
    /\ UNCHANGED sideVars

\* _get_ctxt() in a green thread: no suspension point lies between the test
\* of the global and the assignment
GetCtxt(g) ==
    /\ LET ctx == memoized(ZMQ_CTX, NextId("ctx"))
       IN /\ made' = made \cup Made("ctx", ZMQ_CTX, ctx)
          /\ ZMQ_CTX' = ctx
          /\ uses' = uses \cup {[thread |-> g, what |-> "ctx", obj |-> ctx,
                                 cleanups |-> cleanups]}
    /\ UNCHANGED <<matchmaker, cleanups>>
    /\ UNCHANGED zmqVars
    /\ UNCHANGED mmVars
    /\ UNCHANGED handleVars
    /\ UNCHANGED regVars
    /\ UNCHANGED poolVars
    /\ UNCHANGED closeVars
    /\ UNCHANGED sideVars

\* _get_matchmaker() in a green thread
GetMatchmaker(g) ==
    /\ LET mm == memoized(matchmaker, NextId("matchmaker"))
       IN /\ made' = made \cup Made("matchmaker", matchmaker, mm)
          /\ matchmaker' = mm
          /\ uses' = uses \cup {[thread |-> g, what |-> "matchmaker", obj |-> mm,
                                 cleanups |-> cleanups]}
    /\ UNCHANGED <<ZMQ_CTX, cleanups>>
    /\ UNCHANGED zmqVars
    /\ UNCHANGED mmVars
    /\ UNCHANGED handleVars
    /\ UNCHANGED regVars
    /\ UNCHANGED poolVars
    /\ UNCHANGED closeVars
    /\ UNCHANGED sideVars

\* cleanup(): the context, if there is one, is terminated; both globals are
\* set to None
Cleanup ==
    /\ cleanups < MaxCleanups
    /\ cleanups' = cleanups + 1
    /\ ZMQ_CTX' = 0
    /\ matchmaker' = 0
    /\ UNCHANGED <<made, uses>>
    /\ UNCHANGED zmqVars
    /\ UNCHANGED mmVars
    /\ UNCHANGED handleVars
    /\ UNCHANGED regVars
    /\ UNCHANGED poolVars
    /\ UNCHANGED closeVars
    /\ UNCHANGED sideVars

InitRedis ==
    /\ InitRest
    /\ InitMatchmaker
    /\ InitProxy
    /\ InitCallers
    /\ consumers = EmptyDict
    /\ reactor_pc = [id \in ConsumerIds |-> "idle"]

NextRedis ==
    \/ MatchMakerRedis_init
    \/ \E host \in Hosts : MmRegister(ServiceTopic, host)
    \/ \E key \in MmMembers : MmAckAlive(key)
    \/ \E topic \in MmQueryTopics : MmQueues(topic)
    \/ MmSendHeartbeats
    \/ RedisTick
    \/ RedisRestart

SpecRedis == InitRedis /\ [][NextRedis]_vars

\* two clients register, unregister and evict the hosts of one topic
NextClients ==
    \/ \E c \in Clients, host \in Hosts,
          op \in {"expire", "backend_register", "backend_unregister"} :
            ClientQueue(c, op, ServiceTopic, host)
    \/ \E c \in Clients : ClientExecute(c)

SpecClients == InitRedis /\ [][NextClients]_vars

\* a reactor is set up: sockets of every kind are registered, alone or paired
SockKindsOrNone == SockKinds \cup {""}

NextRegister ==
    \E id \in ConsumerIds, key \in ConsumerKeys, zmq_type_in \in SockKinds,
       out_addr \in {NoAddr, OutAddr}, zmq_type_out \in SockKindsOrNone,
       subscribe \in {NoFilter, PyStr("")}, failed \in {"", "in", "out"} :
        Register(id, key, zmq_type_in, out_addr, zmq_type_out, subscribe, failed)

SpecRegister == InitRedis /\ [][NextRegister]_vars

\* green threads use the context and the matchmaker; the service cleans up
NextGlobals ==
    \/ \E g \in GreenThreads : GetCtxt(g)
    \/ \E g \in GreenThreads : GetMatchmaker(g)
    \/ Cleanup

SpecGlobals == InitRedis /\ [][NextGlobals]_vars

\* a reactor with a small pool: sockets are registered, alone or paired
\* with an out socket, their loops are started, and peers send to them
InitReactor ==
    /\ InitRestWith(PoolSize)
    /\ InitMatchmaker
    /\ InitProxy
    /\ InitCallers
    /\ consumers = EmptyDict
    /\ reactor_pc = [id \in ConsumerIds |-> "idle"]

NextReactor ==
    \/ \E id \in ConsumerIds, out_addr \in {NoAddr, OutAddr} :
          Register(id, ServiceTopic, "PULL", out_addr, "PUSH", NoFilter, "")
    \/ \E id \in ConsumerIds : consume_in_thread(id)
    \/ \E id \in ConsumerIds : \E body \in PeerBodies(nframes + 1) : Arrive(id, body)
    \/ \E id \in ConsumerIds : ReactorConsume(id)
    \/ \E id \in ConsumerIds : ReactorResume(id)
    \/ \E task \in pool : ProcessRun(task, CastBehaviours)

SpecReactor == InitReactor /\ [][NextReactor]_vars

\* the relay and the consumers of one topic, and the service shuts down:
\* close() is the last call on each reactor
NextClose ==
    \/ PeerCast
    \/ ProxyRecv
    \/ \E key \in ConsumerKeys : PublisherOpen(key)
    \/ \E key \in ConsumerKeys : PublisherSettle(key)
    \/ ProxyResume
    \/ ProxyCreateFailed
    \/ \E key \in ConsumerKeys : PublisherRelay(key)
    \/ \E key \in ConsumerKeys : PublisherUnblock(key)
    \/ \E id \in ConsumerIds, fanout \in BOOLEAN :
          /\ "reactor" \notin closed
          /\ create_consumer(id, [ServiceTopic EXCEPT !.host = LocalHost], fanout)
    \/ \E id \in ConsumerIds : ConsumerConnect(id)
    \/ \E id \in ConsumerIds :
          /\ "reactor" \notin closed
          /\ consume_in_thread(id)
    \/ \E id \in ConsumerIds : ReactorConsume(id)
    \/ \E task \in pool : ProcessRun(task, CastBehaviours)
    \/ ProxyClose
    \/ ReactorClose

SpecClose == InitRelay /\ [][NextClose]_vars

\* one handle of any kind, used in every way
NextSocket ==
    \/ \E kind \in SockKinds, do_sub \in {<<>>, <<"f">>, <<"f", "g">>}, failed \in BOOLEAN :
          SockInit(kind, do_sub, failed)
    \/ \E f \in Filters, failed \in BOOLEAN : SockSubscribe(f, failed)
    \/ \E f \in Filters, failed \in BOOLEAN : SockUnsubscribe(f, failed)
    \/ \E failed \in BOOLEAN : SockClose(failed)
    \/ SockRecv
    \/ SockSendData

SpecSocket == InitRedis /\ [][NextSocket]_vars

\* ------------------------------------------------------------------------
\* The whole driver on one host: callers, relay, one service consumer
\* ------------------------------------------------------------------------
Init ==
    /\ InitRest
    /\ InitMatchmaker
    /\ InitProxy
    /\ InitCallers
    /\ consumers = [id \in {"k1"} |->
            [key |-> ServiceTopic, type |-> "PULL", subscriptions |-> {},
             connected |-> FALSE, inbox |-> <<>>]]
    /\ reactor_pc = [id \in ConsumerIds |-> IF id = "k1" THEN "running" ELSE "idle"]

RpcKeys == {ServiceTopic, [ServiceTopic EXCEPT !.prefix = "fanout~"], ReplyKey}

\* the steps of the relay, the reactor and the green threads
Driver(behaviours) ==
    \/ \E c \in Callers : WaiterConnect(c)
    \/ \E c \in Callers : CallRecv(c)
    \/ \E c \in Callers : CallTimeout(c)
    \/ \E c \in Callers : CallRecvError(c)
    \/ \E task \in greenthreads : GreenCast(task)
    \/ ProxyRecv
    \/ \E key \in RpcKeys : PublisherOpen(key)
    \/ \E key \in RpcKeys : PublisherSettle(key)
    \/ ProxyResume
    \/ ProxyCreateFailed
    \/ \E key \in RpcKeys : PublisherRelay(key)
    \/ \E key \in RpcKeys : PublisherUnblock(key)
    \/ \E id \in ConsumerIds : ConsumerConnect(id)
    \/ \E id \in ConsumerIds : ReactorConsume(id)
    \/ \E task \in pool : ProcessRun(task, behaviours)

\* One rpc operation, of any kind, to any matchmaker result, with any handler
\* behaviour, and a misbehaving peer.
Next ==
    \/ RpcStart("c1", Ops, Hosts)
    \/ Driver(Behaviours)
    \/ NetInject

Spec == Init /\ [][Next]_vars

\* Two concurrent operations on the local service.
PairBehaviours == {b \in Behaviours :
    \/ b.kind \in {"raise", "client_exc"}
    \/ b.replies # <<>>
    \/ (b.kind = "return" /\ b.result.tag = "dict" /\ "status" \in DOMAIN b.result.d)}

NextPair ==
    \/ \E c \in Callers : RpcStart(c, {"call", "multicall", "cast"}, {LocalHost})
    \/ Driver(PairBehaviours)

SpecPair == Init /\ [][NextPair]_vars

\* ========================================================================
\* Properties
\* ========================================================================

\* the behaviours of the handler invocations made for caller c's request
HandledFor(c) == {handled[i].behaviour : i \in {j \in 1..Len(handled) : handled[j].origin = c}}

\* the replies a handler produced, in the order it produced them: what a
\* generator yields, else what it passed to ctx.reply, else the one value
\* it returned
RepliesOf(b) ==
    IF b.result.tag = "generator" THEN b.result.yields
    ELSE IF b.replies # <<>> THEN b.replies
    ELSE <<b.result>>

\* the handler returned a plain value and produced no reply sequence
PlainReturn(b) == b.kind = "return" /\ b.result.tag # "generator" /\ b.replies = <<>>

\* C1: a call() whose reply arrives, for a handler that returned V without
\* raising, returns exactly V; when the handler produced a sequence of
\* replies (ctx.reply values, or a generator), call() returns its last element.
C1_CallReturnsValue ==
    \A c \in Callers :
        (caller[c].op = "call" /\ caller[c].exit = "reply") =>
            \A b \in HandledFor(c) :
                /\ PlainReturn(b) => caller[c].outcome = Returned(b.result)
                /\ (b.kind = "return" /\ ~PlainReturn(b) /\ RepliesOf(b) # <<>>)
                      => caller[c].outcome = Returned(Last(RepliesOf(b)))

\* a call returned exactly {"status": "ok"}
C1_Witness ==
    \E c \in Callers :
        /\ caller[c].op = "call"
        /\ caller[c].exit = "reply"
        /\ caller[c].outcome = Returned(PyDict([status |-> PyStr("ok")]))
        /\ \E b \in HandledFor(c) : PlainReturn(b)

\* C2: for the same handler behaviour, multicall() returns the full ordered
\* sequence of replies and call() the last element of that same sequence;
\* for a handler that raised, both raise the same remote error.
C2_MulticallReturnsSequence ==
    \A c \in Callers :
        caller[c].exit = "reply" =>
            \A b \in HandledFor(c) :
                /\ (b.kind = "return" /\ caller[c].op = "multicall")
                      => caller[c].outcome = Returned(PyList(RepliesOf(b)))
                /\ (b.kind = "return" /\ caller[c].op = "call" /\ RepliesOf(b) # <<>>)
                      => caller[c].outcome = Returned(Last(RepliesOf(b)))
                /\ b.kind \in {"raise", "client_exc"}
                      => caller[c].outcome = [kind |-> "remote", value |-> PyNone, exc |-> b.exc]

\* a multicall returned a sequence of two replies
C2_Witness ==
    \E c \in Callers :
        /\ caller[c].op = "multicall"
        /\ caller[c].exit = "reply"
        /\ caller[c].outcome.kind = "return"
        /\ caller[c].outcome.value.tag = "list"
        /\ Len(caller[c].outcome.value.items) = 2

\* C3: the reply a caller receives carries the correlation id that caller
\* generated and is the reply to that caller's own request.
C3_OwnReplyOnly ==
    \A c \in Callers :
        caller[c].reply # NoFrame =>
            /\ caller[c].reply.msg_id = MsgId(c)
            /\ caller[c].reply.body.ctx = Marshal(Context(c))
            /\ caller[c].reply.body.msg.args.msg_id = MsgId(c)

\* two concurrent calls both got their reply, and the relay received the
\* replies in the opposite order to the requests
C3_Witness ==
    /\ \A c \in Callers : caller[c].exit = "reply" /\ caller[c].op = "call"
    /\ Len(HistOf(offered, ServiceTopic)) = 2
    /\ Len(HistOf(offered, ReplyKey)) = 2
    /\ offered[ServiceTopic][1].body.ctx = Marshal(Context("c1"))
    /\ offered[ReplyKey][1].msg_id = MsgId("c2")

\* C4: a call that times out raises Timeout, and however a call or multicall
\* ended (reply, timeout, socket error, malformed reply, failed request send)
\* its reply subscriber is not open any more.
C4_WaiterClosedOnExit ==
    \A c \in Callers :
        /\ caller[c].exit = "timeout" => caller[c].outcome = Raised("Timeout")
        /\ caller[c].pc = "done" => waiter[c].state # "open"
        /\ waiter[c].state = "open" => caller[c].pc = "wait_reply"

\* a call timed out and its subscriber, which had been opened, is closed
C4_Witness ==
    \E c \in Callers :
        /\ caller[c].exit = "timeout"
        /\ caller[c].outcome = Raised("Timeout")
        /\ waiter[c].state = "closed"

\* C5: an operation for which the matchmaker returned no endpoint has raised
\* Timeout, has sent and spawned nothing, is over (no retry) and has opened
\* no reply subscriber.
C5_NoEndpointRaisesTimeout ==
    \A c \in Callers :
        (caller[c].pc # "idle" /\ caller[c].queues = <<>>) =>
            /\ caller[c].pc = "done"
            /\ caller[c].outcome = Raised("Timeout")
            /\ caller[c].sent = {}
            /\ caller[c].spawned = {}
            /\ \A t \in greenthreads : t.origin # c
            /\ waiter[c].state = "none"

C5_Witness ==
    \E c \in Callers :
        /\ caller[c].op = "fanout_cast"
        /\ caller[c].pc = "done"
        /\ caller[c].queues = <<>>
        /\ caller[c].outcome = Raised("Timeout")

\* C6: a fanout_cast for which the matchmaker returned N endpoints has started
\* a send to each of the N endpoints.
C6_FanoutReachesAll ==
    \A c \in Callers :
        (caller[c].op = "fanout_cast" /\ caller[c].pc = "done") =>
            caller[c].spawned = {caller[c].queues[i].host : i \in 1..Len(caller[c].queues)}

\* C7: when the send of a cast() to its single target failed, cast() raised;
\* when the request send inside a call() failed, call() raised.
C7_SendFailureRaised ==
    \A c \in Callers :
        /\ (caller[c].op = "cast" /\ caller[c].cast_error # "none")
              => caller[c].outcome.kind = "raise"
        /\ (caller[c].op = "call" /\ caller[c].exit = "cast_failed")
              => caller[c].outcome.kind = "raise"

\* C8: when the handler raised for a call whose reply arrives, the caller
\* raises the remote error of the handler's exception class and gets no
\* result; a cast produces no reply whatever its handler did; and the
\* reactor's consume loop is still running after any handler exception.
C8_HandlerExceptionIsolated ==
    /\ \A c \in Callers :
          caller[c].exit = "reply" =>
              \A b \in HandledFor(c) :
                  b.kind \in {"raise", "client_exc"} =>
                      /\ caller[c].outcome.kind = "remote"
                      /\ caller[c].outcome.exc = b.exc
    /\ \A t \in greenthreads :
          t.kind = "reply" => caller[t.origin].op \in {"call", "multicall"}
    /\ (\E i \in 1..Len(handled) : handled[i].behaviour.kind \in {"raise", "client_exc"})
          => reactor_pc["k1"] = "running"

\* the handler raised for a cast, and a call dispatched after it got the
\* remote error of its own handler's exception
C8_Witness ==
    /\ Len(handled) = 2
    /\ ~handled[1].call
    /\ handled[1].behaviour.kind = "raise"
    /\ handled[2].call
    /\ handled[2].behaviour.kind = "client_exc"
    /\ caller[handled[2].origin].exit = "reply"
    /\ caller[handled[2].origin].outcome.kind = "remote"
    /\ reactor_pc["k1"] = "running"


\* C9: with a per-topic queue of capacity K (Backlog) from which the publisher
\* has taken nothing, once K+1 frames have been relayed for the topic exactly
\* one frame has been dropped, the last one, exactly one error-level log entry
\* names the topic, and the queue holds the first K frames in arrival order.
C9_BacklogDropsLast ==
    \A key \in DOMAIN topic_proxy :
        (HistOf(drained, key) = <<>> /\ Len(HistOf(offered, key)) = Backlog + 1) =>
            /\ topic_proxy[key] = SubSeq(offered[key], 1, Backlog)
            /\ HistOf(dropped, key) = <<offered[key][Backlog + 1]>>
            /\ CopiesIn(LogError("backlog_full", key), log) = 1

C9_Witness ==
    \E key \in DOMAIN topic_proxy :
        /\ HistOf(drained, key) = <<>>
        /\ Len(HistOf(offered, key)) = Backlog + 1
        /\ Len(HistOf(dropped, key)) = 1

\* C10: whenever ZmqProxy.consume is inside a call (it is not at its recv), it
\* eventually returns to the recv of the next frame, whatever the state of
\* the topic's queue and of its publisher.
C10_ConsumeReturns == (proxy_pc # "recv") ~> (proxy_pc = "recv")

\* the relay is back at its recv after dropping a frame for a topic whose
\* queue is full and whose publisher is blocked in its send
C10_Witness ==
    /\ proxy_pc = "recv"
    /\ \E key \in DOMAIN publisher :
        /\ publisher[key].pc = "send"
        /\ Len(topic_proxy[key]) = Backlog
        /\ HistOf(dropped, key) # <<>>

\* b comes somewhere after a in the sequence s
Precedes(s, a, b) == \E i, j \in 1..Len(s) : i < j /\ s[i] = a /\ s[j] = b

\* the elements of s are in the order in which they are in t
KeepsOrder(s, t) == \A i, j \in 1..Len(s) : i < j => Precedes(t, s[i], s[j])

\* C11: for every routing key, the frames the publisher has taken off the
\* queue and sent, followed by those still queued, are in the order in which
\* the relay received them, and so are the frames in the socket of a consumer
\* of that key: of two frames both delivered, the first received is first.
C11_RelayKeepsOrder ==
    \A key \in DOMAIN topic_proxy :
        /\ KeepsOrder(HistOf(drained, key) \o topic_proxy[key], HistOf(offered, key))
        /\ \A id \in DOMAIN consumers :
              consumers[id].key = key => KeepsOrder(consumers[id].inbox, HistOf(offered, key))

\* two frames of one key were delivered to a consumer after a third frame of
\* that key had been dropped
C11_Witness ==
    \E key \in DOMAIN topic_proxy : \E id \in DOMAIN consumers :
        /\ consumers[id].key = key
        /\ Len(consumers[id].inbox) >= 2
        /\ Len(HistOf(drained, key)) >= 2
        /\ HistOf(dropped, key) # <<>>

\* the frames the publisher of a key has sent on its socket, in order: those
\* it took off the queue, but for the one a blocked send still holds
Published(key) ==
    IF key \in DOMAIN publisher /\ publisher[key].pc = "send"
    THEN SubSeq(HistOf(drained, key), 1, Len(HistOf(drained, key)) - 1)
    ELSE HistOf(drained, key)

\* the messages a consumer has got: those waiting in its socket, those its
\* reactor spawned process() for, and those its proxy has dispatched
Got(id) ==
    {consumers[id].inbox[i].body.msg : i \in 1..Len(consumers[id].inbox)}
    \cup {t.request : t \in {u \in pool : u.proxy = id}}
    \cup {handled[i].request : i \in {j \in 1..Len(handled) : handled[j].proxy = id}}

\* how many times a message is held by, or was dispatched by, the consumers
Deliveries(msg) ==
    Cardinality({p \in (DOMAIN consumers) \X (1..MaxCasts) :
                    p[2] <= Len(consumers[p[1]].inbox) /\ consumers[p[1]].inbox[p[2]].body.msg = msg})
    + Cardinality({t \in pool : t.request = msg})
    + Cardinality({i \in 1..Len(handled) : handled[i].request = msg})

\* C12: every message the relay has published for the non-fanout topic is
\* with exactly one of the topic's consumers, once: in its socket, in its
\* pool, or dispatched by its proxy; and no message is dispatched twice.
C12_WorkQueueDeliversOnce ==
    \A i \in 1..Len(Published(ServiceTopic)) :
        LET msg == Published(ServiceTopic)[i].body.msg
        IN /\ Deliveries(msg) = 1
           /\ \E id \in DOMAIN consumers :
                /\ msg \in Got(id)
                /\ consumers[id].key = ServiceTopic
                /\ consumers[id].type = "PULL"
                /\ \A other \in DOMAIN consumers \ {id} : msg \notin Got(other)

\* two consumers are attached to the non-fanout topic and each has
\* dispatched a message of it
C12_Witness ==
    /\ \A id \in ConsumerIds :
          /\ id \in DOMAIN consumers
          /\ consumers[id].type = "PULL"
          /\ consumers[id].connected
          /\ \E i \in 1..Len(handled) : handled[i].proxy = id
    /\ Len(Published(ServiceTopic)) >= 2

\* C13: a message the relay publishes for the fanout topic comes to every
\* fanout consumer that is attached when it is published, and what a consumer
\* has got stays with it until its proxy dispatches it.
C13_FanoutDeliversToAll ==
    [][\A id \in DOMAIN consumers :
          /\ (consumers[id].type = "SUB" /\ consumers[id].connected
                /\ Len(HistOf(drained', FanoutTopic)) > Len(HistOf(drained, FanoutTopic)))
                => Last(drained'[FanoutTopic]).body.msg \in Got(id)'
          /\ Got(id) \subseteq Got(id)']_vars

\* two fanout consumers have both dispatched the same message
C13_Witness ==
    \E n \in 1..MaxCasts :
        \A id \in ConsumerIds :
           /\ id \in DOMAIN consumers
           /\ consumers[id].type = "SUB"
           /\ \E i \in 1..Len(handled) :
                 handled[i].proxy = id /\ handled[i].request = CastMsg(n)

\* the first dot-delimited segment of a topic
FirstSegment(t) == Topic(t.prefix, t.name, "")

\* C14: every queue, publisher and local socket of the relay is keyed by a
\* first segment, every frame the relay has routed went to the queue keyed
\* by the first segment of its topic whatever host the topic names, and a
\* consumer created for 'svc.<host>' is attached to the channel of 'svc' (or,
\* with fanout, of 'fanout~svc').
C14_RoutedByFirstSegment ==
    /\ \A key \in (DOMAIN topic_proxy) \cup (DOMAIN publisher) \cup (DOMAIN out_sock) :
          key.host = ""
    /\ \A key \in DOMAIN offered : \A i \in 1..Len(offered[key]) :
          key = FirstSegment(offered[key][i].topic)
    /\ \A id \in DOMAIN consumers :
          /\ consumers[id].key.name = "svc"
          /\ consumers[id].key.host = ""

\* the consumer created for 'svc.h1' holds frames that were sent to 'svc',
\* to 'svc.h1' and to 'svc.h2'
C14_Witness ==
    \E id \in DOMAIN consumers :
        /\ consumers[id].type = "PULL"
        /\ {consumers[id].inbox[i].topic.host : i \in 1..Len(consumers[id].inbox)}
              = {"", LocalHost, RemoteHost}

\* C15: the local socket of a routing key is a PUB socket exactly when the
\* key starts with 'fanout~' or with 'zmq_replies', else a PUSH socket, and
\* once a key has a socket its kind never changes.
C15_SocketKindByKey ==
    /\ [](\A key \in DOMAIN out_sock :
            /\ out_sock[key] \in {"PUB", "PUSH"}
            /\ out_sock[key] = "PUB" <=> (key.prefix = "fanout~" \/ key.name = "zmq_replies"))
    /\ [][\A key \in DOMAIN out_sock :
            key \in DOMAIN out_sock' /\ out_sock'[key] = out_sock[key]]_vars

\* the relay has a work-queue socket for the service topic and a broadcast
\* socket for the reply topic, and has relayed a frame on each
C15_Witness ==
    /\ ServiceTopic \in DOMAIN out_sock
    /\ out_sock[ServiceTopic] = "PUSH"
    /\ ReplyKey \in DOMAIN out_sock
    /\ out_sock[ReplyKey] = "PUB"
    /\ HistOf(drained, ServiceTopic) # <<>>
    /\ HistOf(drained, ReplyKey) # <<>>

\* C16: a lookup of the topic returns no host whose liveness key is gone,
\* and a lookup that found no live host has left no host in the topic's
\* membership set.
C16_ExpiredHostEvicted ==
    (mm_last.op = "queues" /\ mm_last.arg = ServiceTopic) =>
        /\ \A i \in 1..Len(mm_last.result) : mm_last.result[i].topic \in DOMAIN redis_keys
        /\ mm_last.result = <<>> => RedisSMembers(redis_sets, ServiceTopic) = {}

\* C17: right after a registration, is_alive of the registered host answers
\* that it is alive and leaves it in the membership set.
C17_RegisteredIsAlive ==
    mm_last.op = "register" =>
        LET r == is_alive(redis_keys, redis_sets, ServiceTopic, mm_last.arg)
        IN /\ mm_last.arg \in RedisSMembers(redis_sets, ServiceTopic)
           /\ r.alive
           /\ r.sets = redis_sets

\* C18: ack_alive(key) changes no membership set; when the liveness key
\* exists it answers success and the key has the heartbeat TTL to live, all
\* other keys as before; when the key does not exist it answers failure and
\* the store is as it was.
C18_AckAliveRenewsOnly ==
    [][\A key \in MmMembers :
          MmAckAlive(key) =>
              /\ redis_sets' = redis_sets
              /\ DOMAIN redis_keys' = DOMAIN redis_keys
              /\ \A other \in (DOMAIN redis_keys) \ {key} : redis_keys'[other] = redis_keys[other]
              /\ IF key \in DOMAIN redis_keys
                 THEN mm_last'.ok /\ redis_keys'[key] = HeartbeatTtl
                 ELSE ~mm_last'.ok]_vars

\* ack_alive failed on a host whose liveness key has expired and which is
\* still a member of its topic's set
C18_Witness ==
    /\ mm_last.op = "ack_alive"
    /\ ~mm_last.ok
    /\ mm_last.arg \notin DOMAIN redis_keys
    /\ mm_last.arg \in RedisSMembers(redis_sets, ServiceTopic)

\* C19: a send_heartbeats() round has completed without error and every
\* locally registered (topic, host) is a member of its topic's set and has a
\* liveness key with the heartbeat TTL to live.
C19_HeartbeatsSelfHeal ==
    mm_last.op = "send_heartbeats" =>
        /\ mm_last.ok
        /\ \A htp \in host_topic :
              /\ KeyHost(htp.key, htp.host) \in RedisSMembers(redis_sets, htp.key)
              /\ KeyHost(htp.key, htp.host) \in DOMAIN redis_keys
              /\ redis_keys[KeyHost(htp.key, htp.host)] = HeartbeatTtl

\* C20: a lookup is answered by one strategy: fanout when the topic starts
\* with 'fanout~', whether or not it names a host; else direct when the topic
\* names a host; else topic.
C20_FirstBindingWins ==
    mm_last.op = "queues" =>
        mm_last.strategy = IF mm_last.arg.prefix = "fanout~" THEN "fanout"
                           ELSE IF mm_last.arg.host # "" THEN "direct"
                           ELSE "topic"

\* a fanout topic that names a host was resolved by the fanout exchange
C20_Witness ==
    /\ mm_last.op = "queues"
    /\ mm_last.arg = Topic("fanout~", ServiceTopic.name, LocalHost)
    /\ mm_last.strategy = "fanout"

\* C21: whatever the clients of the directory do at the same time, a host is
\* a member of the topic's set exactly when its liveness key exists: no state
\* shows one effect of an expire(), backend_register() or
\* backend_unregister() without the other.
C21_PipelinesAtomic ==
    \A m \in MmMembers :
        m \in RedisSMembers(redis_sets, ServiceTopic) <=> m \in DOMAIN redis_keys

\* a host is registered while one client has queued its eviction and the
\* other its registration
C21_Witness ==
    /\ \E m \in MmMembers :
        /\ m \in RedisSMembers(redis_sets, ServiceTopic)
        /\ pipe["a"] = expire_pipeline(ServiceTopic, m)
        /\ pipe["b"] = backend_register_pipeline(ServiceTopic, m)

\* C22: on a handle of any kind, open or closed, send() succeeds in passing
\* the capability test exactly for PUSH and PUB and recv() exactly for PULL
\* and SUB; the other operation raises the capability error and has made no
\* call on the native socket.
C22_CapabilityChecked ==
    /\ zlast.op = "send" =>
        IF zlast.h.kind \in {"PUSH", "PUB"}
        THEN zlast.raised # "RPCException: You cannot send on this socket."
        ELSE zlast.raised = "RPCException: You cannot send on this socket."
             /\ zlast.native = <<>>
    /\ zlast.op = "recv" =>
        IF zlast.h.kind \in {"PULL", "SUB"}
        THEN zlast.raised # "RPCException: You cannot recv on this socket."
        ELSE zlast.raised = "RPCException: You cannot recv on this socket."
             /\ zlast.native = <<>>

\* send() was refused on a SUB handle that has subscriptions
C22_Witness ==
    /\ zlast.op = "send"
    /\ zsock.kind = "SUB"
    /\ zsock.sock = "open"
    /\ zsock.subscriptions # <<>>
    /\ zlast.raised = "RPCException: You cannot send on this socket."

\* C23: a close() raises nothing; afterwards the handle has no socket, no
\* subscription in its list and no filter on the native socket; when it
\* made calls on the native socket these are one UNSUBSCRIBE per
\* subscription followed by the close, and a close() of a closed handle makes
\* none.
C23_CloseIdempotent ==
    /\ [](zlast.op = "close" =>
            /\ zlast.raised = "none"
            /\ zsock.sock = "none"
            /\ zsock.subscriptions = <<>>
            /\ \A f \in Filters : zsock.filters[f] = 0
            /\ zlast.native # <<>> =>
                /\ zlast.native[Len(zlast.native)].call = "close"
                /\ \A i \in 1..(Len(zlast.native) - 1) :
                      zlast.native[i].call = "UNSUBSCRIBE")
    /\ [][\A failed \in BOOLEAN :
            zsock.sock = "none" /\ SockClose(failed) =>
                zsock' = zsock /\ zlast'.native = <<>> /\ zlast'.raised = "none"]_vars

\* a SUB handle with two subscriptions was closed: both were unsubscribed
\* before the socket was released
C23_Witness ==
    /\ zlast.op = "close"
    /\ zsock.kind = "SUB"
    /\ Len(zlast.native) = 3
    /\ zlast.native[1].call = "UNSUBSCRIBE"
    /\ zlast.native[3].call = "close"

\* C24: after an unsubscribe(f) that raised nothing, f is not active on the
\* handle: it is neither in the handle's list nor on the native socket.
C24_UnsubscribeDeactivates ==
    (zlast.op = "unsubscribe" /\ zlast.raised = "none") =>
        /\ ~InList(zsock.subscriptions, zlast.arg)
        /\ zsock.filters[zlast.arg] = 0

BadIn == reg_last.zmq_type_in \notin {"PULL", "SUB"}
BadOut == reg_last.out_addr # NoAddr /\ reg_last.zmq_type_out \notin {"PUSH", "PUB"}
Opened ==
    /\ reg_last.failed # "in"
    /\ reg_last.failed = "out" => reg_last.out_addr = NoAddr
    /\ reg_last.subscribe # NoFilter => reg_last.zmq_type_in = "SUB"

C26_LazySingletons ==
    /\ [](/\ \A u \in uses : u.obj # 0
          /\ \A u1, u2 \in uses :
                u1.what = u2.what =>
                    (u1.cleanups = u2.cleanups <=> u1.obj = u2.obj)
          /\ \A m1, m2 \in made :
                (m1.what = m2.what /\ m1.cleanups = m2.cleanups) => m1 = m2
          /\ \A u \in uses : \E m \in made :
                m.what = u.what /\ m.obj = u.obj /\ m.cleanups = u.cleanups)
    /\ [][Cleanup => (ZMQ_CTX' = 0 /\ matchmaker' = 0 /\ made' = made)]_vars

\* after a cleanup both green threads have used the second context
C26_Witness ==
    /\ cleanups = 1
    /\ \E u1, u2 \in uses :
        /\ u1.thread = "g1" /\ u2.thread = "g2"
        /\ u1.what = "ctx" /\ u2.what = "ctx"
        /\ u1.cleanups = 1 /\ u2.cleanups = 1
    /\ \E u \in uses : u.what = "ctx" /\ u.cleanups = 0

HasMarker(request) == HasMethod(request) /\ request.method \in {"-reply", "-foo"}

\* C28: every request that reached the application dispatcher has a method
\* that does not begin with '-', and every request whose method begins with
\* '-' went to the private reply handler.
C28_MarkerRoutedPrivately ==
    \A i \in 1..Len(handled) :
        HasMarker(handled[i].request) <=> handled[i].call

\* C29: a consume loop that takes a message off a paired inbound socket
\* appends exactly that message to what the paired out socket has sent and
\* starts no handler and stays running, whatever the message holds; a loop
\* of an unpaired socket leaves every out socket alone; no handler ever ran
\* or is to run for a paired socket.
C29_PairedSocketRelaysRaw ==
    /\ [](/\ \A task \in pool : task.proxy \notin DOMAIN mapping
          /\ \A i \in 1..Len(handled) : handled[i].proxy \notin DOMAIN mapping)
    /\ [][\A id \in ConsumerIds :
            ReactorConsume(id) =>
                IF id \in DOMAIN mapping
                THEN /\ mapping'[id].sent = Append(mapping[id].sent, Head(consumers[id].inbox))
                     /\ pool' = pool
                     /\ handled' = handled
                     /\ reactor_pc' = reactor_pc
                ELSE mapping' = mapping]_vars

\* a paired socket has relayed two messages, one of them not decodable, and
\* its loop is still running
C29_Witness ==
    \E id \in DOMAIN mapping :
        /\ Len(mapping[id].sent) = 2
        /\ ~IsJson(mapping[id].sent[1].body)
        /\ IsJson(mapping[id].sent[2].body)
        /\ reactor_pc[id] = "running"

\* C30: once close() of the relay has run, every ipc socket the relay has
\* created is closed, its consume loop is gone and no publisher is left;
\* once close() of a reactor has run, every registered socket is closed, no
\* consume loop is left and no request is dispatched any more.
C30_CloseStopsEverything ==
    /\ "proxy" \in closed =>
        /\ DOMAIN out_sock \subseteq closed_socks.proxy
        /\ proxy_pc = "killed"
        /\ \A key \in DOMAIN publisher : publisher[key].pc = "dead"
    /\ "reactor" \in closed =>
        /\ DOMAIN consumers \subseteq closed_socks.reactor
        /\ \A id \in ConsumerIds : reactor_pc[id] \in {"idle", "killed"}
        /\ pool = {}
        /\ Len(handled) = handled_at_close

\* ------------------------------------------------------------------------
\* C31: the channel of a routing key is made when its first frame arrives.
\* For a PUB channel the publisher, once the socket is bound, sleeps before
\* it signals the relay, and nothing is queued or published for the key
\* while it is being made or settling; the sleep happens before the first
\* frame of the key is queued and so never for a later frame of that key.
\* ------------------------------------------------------------------------
Settling(key) == key \in DOMAIN publisher /\ publisher[key].pc \in {"create", "settle"}

C31_SettleBeforePublish ==
    /\ [](\A key \in RelayKeys :
            /\ Settling(key) =>
                  /\ HistOf(offered, key) = <<>>
                  /\ HistOf(drained, key) = <<>>
                  /\ proxy_pc = "wait"
                  /\ creation \in {"pending"}
            /\ (key \in DOMAIN publisher /\ publisher[key].pc = "settle") =>
                  (key \in DOMAIN out_sock /\ out_sock[key] = "PUB")
            /\ HistOf(offered, key) # <<>> => key \in DOMAIN topic_proxy)
    /\ [][\A key \in RelayKeys :
            /\ (PublisherOpen(key) /\ key \in DOMAIN out_sock' /\ out_sock'[key] = "PUB") =>
                  (publisher'[key].pc = "settle" /\ creation' = creation)
            /\ PublisherSettle(key) => (HistOf(offered, key) = <<>> /\ creation' = "sent")
            /\ (ProxyRecv /\ key \in DOMAIN topic_proxy) => ~Settling(key)']_vars

\* a frame went out of a PUB channel that had settled
C31_Witness ==
    \E key \in RelayKeys :
        /\ key \in DOMAIN out_sock
        /\ out_sock[key] = "PUB"
        /\ publisher[key].pc = "get"
        /\ Len(HistOf(drained, key)) >= 1
        /\ Len(HistOf(offered, key)) >= 2

\* ------------------------------------------------------------------------
\* _cast and ZmqClient, lines 211-227 and 598-613: the outbound socket of a
\* cast.  Green threads cast to target addresses; a send on a green socket
\* may wait, so another green thread may run between ZmqClient(addr) and the
\* send.
\* ------------------------------------------------------------------------
MaxCastCalls == 4

CastAddrs == {"tcp://h1:9501", "tcp://h2:9501"}

\* the ZmqClient sockets of an address that are open
OpenTo(addr) == {i \in 1..Len(outq) : outq[i].addr = addr /\ outq[i].sock = "open"}

\* _cast, lines 603-605: conn = ZmqClient(addr) makes a ZmqSocket of kind PUSH
\* that connects to addr (lines 212-215).  When the socket cannot be opened
\* RPCException leaves _cast: conn is not bound and nothing is closed.
CastOpen(g, addr) ==
    /\ cast_pc[g].pc = "idle"
    /\ Len(outq) < MaxCastCalls
    /\ \E failed \in BOOLEAN :
         LET o == Handle_init("PUSH", <<>>, failed)
         IN IF o.raised # "none"
            THEN UNCHANGED <<cast_pc, outq>>
            ELSE /\ outq' = Append(outq, [addr |-> addr, sock |-> o.h.sock])
                 /\ cast_pc' = [cast_pc EXCEPT ![g] =
                                    [pc |-> "cast", addr |-> addr, conn |-> Len(outq) + 1]]
    /\ UNCHANGED cast_log
    /\ UNCHANGED castRest
    /\ UNCHANGED zmqVars
    /\ UNCHANGED mmVars

\* _cast, lines 607-613: conn.cast sends on conn.outq (line 222); whether
\* the send went through or raised ZMQError, the finally clause closes conn
CastSendClose(g) ==
    /\ cast_pc[g].pc = "cast"
    /\ \E failed \in BOOLEAN :
         LET h == [NoSocket EXCEPT !.kind = "PUSH", !.sock = outq[cast_pc[g].conn].sock]
             sent == Handle_send(h)
             shut == Handle_close(h, FALSE)
         IN /\ cast_log' = IF sent.raised = "none" /\ ~failed
                           THEN Append(cast_log, [addr |-> cast_pc[g].addr,
                                                  conn |-> cast_pc[g].conn])
                           ELSE cast_log
            /\ outq' = [outq EXCEPT ![cast_pc[g].conn].sock = shut.h.sock]
    /\ cast_pc' = [cast_pc EXCEPT ![g] = IdleCast]
    /\ UNCHANGED castRest
    /\ UNCHANGED zmqVars
    /\ UNCHANGED mmVars

NextCast ==
    \/ \E g \in GreenThreads, addr \in CastAddrs : CastOpen(g, addr)
    \/ \E g \in GreenThreads : CastSendClose(g)

SpecCast == InitRedis /\ [][NextCast]_vars

\* C32: two casts to the same target address use the same socket, a socket
\* that a cast used stays open (nothing here shuts the driver down), and at
\* most one socket per target address is open at any time.
C32_OneCachedHandlePerAddress ==
    /\ \A i, j \in 1..Len(cast_log) :
          cast_log[i].addr = cast_log[j].addr => cast_log[i].conn = cast_log[j].conn
    /\ \A i \in 1..Len(cast_log) : outq[cast_log[i].conn].sock = "open"
    /\ \A addr \in CastAddrs : Cardinality(OpenTo(addr)) <= 1

\* ------------------------------------------------------------------------
\* ZmqProxy.consume run by several consume loops, lines 430-489 and 395-404:
\* consume_in_thread spawns one _consume loop per registered inbound socket,
\* and every loop runs consume on the one topic_proxy table.  A consume call
\* gives up the processor in sock.recv() and in wait_sock_creation.wait();
\* a publisher starts running some time after eventlet.spawn.
\* ------------------------------------------------------------------------
MaxLoopFrames == 3

LoopKeys == {ServiceTopic, [ServiceTopic EXCEPT !.prefix = "fanout~"]}

\* the publishers of a routing key that have not ended
PublishersOf(key) ==
    {p \in 1..Len(zp_publishers) :
        zp_publishers[p].key = key /\ zp_publishers[p].pc # "ended"}

SocketsOf(key) == {i \in 1..Len(zp_sockets) : zp_sockets[i] = key}

QueuesOf(key) == {i \in 1..Len(zp_queues) : zp_queues[i].key = key}

\* lines 483-489: put_nowait on the queue topic_proxy holds for the key now
LoopPut(l, key, data) ==
    /\ zp_queues' = [zp_queues EXCEPT ![zp_topic_proxy[key]].items =
                        IF QueueHasRoom(@) THEN Append(@, data) ELSE @]
    /\ zp_pc' = [zp_pc EXCEPT ![l] = "recv"]
    /\ zp_data' = [zp_data EXCEPT ![l] = NoFrame]
    /\ wait_sock_creation' = [wait_sock_creation EXCEPT ![l] = "none"]

\* consume, lines 433-478: receive a frame; when the key is not in
\* topic_proxy spawn a publisher and wait for its event, else queue the frame
LoopRecv(l, key) ==
    /\ zp_pc[l] = "recv"
    /\ zp_received < MaxLoopFrames
    /\ zp_received' = zp_received + 1
    /\ LET data == Frame(zp_received + 1, key, [enc |-> "none"])
       IN IF key \in DOMAIN zp_topic_proxy
          THEN /\ LoopPut(l, key, data)
               /\ UNCHANGED zp_publishers
          ELSE /\ zp_publishers' = Append(zp_publishers,
                      [key |-> key, pc |-> "create", type |-> SockTypeFor(key),
                       waiter |-> l, queue |-> 0, sent |-> <<>>])
               /\ zp_pc' = [zp_pc EXCEPT ![l] = "wait"]
               /\ zp_data' = [zp_data EXCEPT ![l] = data]
               /\ wait_sock_creation' = [wait_sock_creation EXCEPT ![l] = "pending"]
               /\ UNCHANGED zp_queues
    /\ UNCHANGED <<zp_topic_proxy, zp_sockets, zp_lost>>
    /\ UNCHANGED loopRest
    /\ UNCHANGED zmqVars
    /\ UNCHANGED mmVars

\* publisher(), lines 446-470 up to the first wait: bind the ipc socket of
\* the key (RPCException ends the publisher with send_exception), store a
\* new queue in topic_proxy[topic], append the socket; then sleep (PUB) or
\* signal the waiter and wait in get() on the queue of the key
LoopPublisherOpen(p) ==
    /\ p \in 1..Len(zp_publishers)
    /\ zp_publishers[p].pc = "create"
    /\ LET key == zp_publishers[p].key
           l == zp_publishers[p].waiter
       IN \E bound \in BOOLEAN :
            IF bound
            THEN /\ zp_queues' = Append(zp_queues, [key |-> key, items |-> <<>>])
                 /\ zp_topic_proxy' = DictSet(zp_topic_proxy, key, Len(zp_queues) + 1)
                 /\ zp_sockets' = Append(zp_sockets, key)
                 /\ IF zp_publishers[p].type = "PUB"
                    THEN /\ zp_publishers' = [zp_publishers EXCEPT ![p].pc = "settle"]
                         /\ UNCHANGED wait_sock_creation
                    ELSE /\ zp_publishers' = [zp_publishers EXCEPT
                                                 ![p].pc = "get",
                                                 ![p].queue = Len(zp_queues) + 1]
                         /\ wait_sock_creation' = [wait_sock_creation EXCEPT ![l] = "sent"]
            ELSE /\ zp_publishers' = [zp_publishers EXCEPT ![p].pc = "ended"]
                 /\ wait_sock_creation' = [wait_sock_creation EXCEPT ![l] = "exception"]
                 /\ UNCHANGED <<zp_queues, zp_topic_proxy, zp_sockets>>
    /\ UNCHANGED <<zp_pc, zp_data, zp_received, zp_lost>>
    /\ UNCHANGED loopRest
    /\ UNCHANGED zmqVars
    /\ UNCHANGED mmVars

\* publisher(), lines 463-468: the sleep of a PUB socket is over; signal the
\* waiter and wait in get() on the queue topic_proxy holds for the key now
LoopPublisherSettle(p) ==
    /\ p \in 1..Len(zp_publishers)
    /\ zp_publishers[p].pc = "settle"
    /\ zp_publishers' = [zp_publishers EXCEPT
                            ![p].pc = "get",
                            ![p].queue = zp_topic_proxy[zp_publishers[p].key]]
    /\ wait_sock_creation' = [wait_sock_creation EXCEPT ![zp_publishers[p].waiter] = "sent"]
    /\ UNCHANGED <<zp_pc, zp_data, zp_queues, zp_topic_proxy, zp_sockets, zp_received,
                   zp_lost>>
    /\ UNCHANGED loopRest
    /\ UNCHANGED zmqVars
    /\ UNCHANGED mmVars

\* consume, lines 477-489: wait_sock_creation.wait() returned
LoopResume(l) ==
    /\ zp_pc[l] = "wait"
    /\ wait_sock_creation[l] = "sent"
    /\ LoopPut(l, SplitBase(zp_data[l].topic), zp_data[l])
    /\ UNCHANGED <<zp_publishers, zp_topic_proxy, zp_sockets, zp_received, zp_lost>>
    /\ UNCHANGED loopRest
    /\ UNCHANGED zmqVars
    /\ UNCHANGED mmVars

\* consume, lines 479-481: wait_sock_creation.wait() raised RPCException;
\* the frame is dropped with "Topic socket file creation failed."
LoopCreateFailed(l) ==
    /\ zp_pc[l] = "wait"
    /\ wait_sock_creation[l] = "exception"
    /\ zp_lost' = Append(zp_lost,
                         [data |-> zp_data[l],
                          raced |-> PublishersOf(SplitBase(zp_data[l].topic)) # {}])
    /\ zp_pc' = [zp_pc EXCEPT ![l] = "recv"]
    /\ zp_data' = [zp_data EXCEPT ![l] = NoFrame]
    /\ wait_sock_creation' = [wait_sock_creation EXCEPT ![l] = "none"]
    /\ UNCHANGED <<zp_publishers, zp_queues, zp_topic_proxy, zp_sockets, zp_received>>
    /\ UNCHANGED loopRest
    /\ UNCHANGED zmqVars
    /\ UNCHANGED mmVars

\* publisher(), lines 468-470: get() returns the oldest frame of the queue
\* the publisher waits on, the publisher sends it on its own socket and
\* calls get() on the queue topic_proxy holds for the key now
LoopPublisherRelay(p) ==
    /\ p \in 1..Len(zp_publishers)
    /\ zp_publishers[p].pc = "get"
    /\ zp_queues[zp_publishers[p].queue].items # <<>>
    /\ zp_queues' = [zp_queues EXCEPT ![zp_publishers[p].queue].items = Tail(@)]
    /\ zp_publishers' = [zp_publishers EXCEPT
                            ![p].sent = Append(@, Head(zp_queues[zp_publishers[p].queue].items)),
                            ![p].queue = zp_topic_proxy[zp_publishers[p].key]]
    /\ UNCHANGED <<zp_pc, zp_data, wait_sock_creation, zp_topic_proxy, zp_sockets,
                   zp_received, zp_lost>>
    /\ UNCHANGED loopRest
    /\ UNCHANGED zmqVars
    /\ UNCHANGED mmVars

NextLoops ==
    \/ \E l \in Loops, key \in LoopKeys : LoopRecv(l, key)
    \/ \E p \in 1..MaxLoopFrames : LoopPublisherOpen(p)
    \/ \E p \in 1..MaxLoopFrames : LoopPublisherSettle(p)
    \/ \E l \in Loops : LoopResume(l)
    \/ \E l \in Loops : LoopCreateFailed(l)
    \/ \E p \in 1..MaxLoopFrames : LoopPublisherRelay(p)

SpecLoops == InitRedis /\ [][NextLoops]_vars

\* C33: with several consume loops on one ZmqProxy each routing key has at
\* most one local outbound socket, one queue and one publisher, and no frame
\* is dropped because two loops raced to make the channel of the same key.
C33_OneChannelPerKey ==
    /\ \A key \in LoopKeys :
          /\ Cardinality(SocketsOf(key)) <= 1
          /\ Cardinality(QueuesOf(key)) <= 1
          /\ Cardinality(PublishersOf(key)) <= 1
    /\ \A i \in 1..Len(zp_lost) : ~zp_lost[i].raced

\* C34: a malformed message does not stop a consume loop: no loop has ended
\* while a well-formed message waits on its socket, so every later
\* well-formed message is still received and dispatched.
C34_MalformedDoesNotStopLoop ==
    \A id \in DOMAIN consumers :
        reactor_pc[id] = "dead" =>
            \A i \in 1..Len(consumers[id].inbox) : ~IsJson(consumers[id].inbox[i].body)

\* C35: a fanout lookup of the topic has returned exactly one pair per member
\* that is_alive accepted (the members left in the set, the stale ones having
\* been evicted by the filter), and in every pair the host is the host part
\* of the same pair's member name.
C35_FanoutPairsLiveMembers ==
    (/\ mm_last.op = "queues"
     /\ mm_last.arg = [ServiceTopic EXCEPT !.prefix = "fanout~"]
     /\ mm_last.strategy = "fanout"
     /\ mm_last.raised = "") =>
        /\ \A i \in 1..Len(mm_last.result) :
              /\ mm_last.result[i].host = mm_last.result[i].topic.host
              /\ mm_last.result[i].topic \in RedisSMembers(redis_sets, ServiceTopic)
        /\ {mm_last.result[i].topic : i \in 1..Len(mm_last.result)}
              = RedisSMembers(redis_sets, ServiceTopic)
        /\ Len(mm_last.result) = Cardinality(RedisSMembers(redis_sets, ServiceTopic))

\* ------------------------------------------------------------------------
\* is_alive beside the host's own registration and heartbeat, lines 104-118
\* and 127-137.  is_alive sends TTL and then, in a second request, the
\* MULTI/EXEC of expire; the server runs the commands of other clients
\* between the two.
\* ------------------------------------------------------------------------

\* is_alive, lines 108-109: self.redis.ttl(host) == -1
IsAliveTtl(c, host) ==
    /\ mm_bindings # <<>>
    /\ is_alive_pc[c].pc = "idle"
    /\ RedisTtl(redis_keys, host) = -1
    /\ is_alive_pc' = [is_alive_pc EXCEPT ![c] = [pc |-> "expire", host |-> host]]
    /\ UNCHANGED evicted
    /\ UNCHANGED lookupRest
    /\ UNCHANGED mmVars
    /\ UNCHANGED zmqVars

\* is_alive, lines 109-110: self.expire(topic, host) and return False
IsAliveExpire(c, topic) ==
    /\ is_alive_pc[c].pc = "expire"
    /\ LET host == is_alive_pc[c].host
           r == expire(redis_keys, redis_sets, topic, host)
       IN /\ redis_keys' = r.keys
          /\ redis_sets' = r.sets
          /\ evicted' = evicted \cup
                {[host |-> host, ttl |-> RedisTtl(redis_keys, host),
                  member |-> host \in RedisSMembers(redis_sets, topic)]}
          /\ mm_last' = MmOp("is_alive", host, "", <<>>, FALSE, "")
    /\ is_alive_pc' = [is_alive_pc EXCEPT ![c] = IdleLookup]
    /\ UNCHANGED <<mm_bindings, ttl_missing, host_topic>>
    /\ UNCHANGED lookupRest
    /\ UNCHANGED zmqVars

NextLookup ==
    \/ MatchMakerRedis_init
    \/ \E host \in Hosts : MmRegister(ServiceTopic, host)
    \/ \E key \in MmMembers : MmAckAlive(key)
    \/ RedisTick
    \/ \E host \in MmMembers : IsAliveTtl("a", host)
    \/ IsAliveExpire("a", ServiceTopic)

SpecLookup == InitRedis /\ [][NextLookup]_vars

\* C36: is_alive has never removed a host whose liveness key was fresh, that
\* is had time to live, at the moment of the removal.
C36_FreshHostNeverEvicted ==
    \A e \in evicted : e.ttl <= 0

\* C37: a topic lookup on a finite membership set ends without an error; when
\* a member with a liveness key is in the set it returns one pair, for such a
\* member, and the empty list otherwise; the members it removed from the set
\* were all without a liveness key.
C37_TopicRunEndsWithLiveOrEmpty ==
    [][MmQueues(ServiceTopic) =>
        LET members == RedisSMembers(redis_sets, ServiceTopic)
            live == {m \in members : m \in DOMAIN redis_keys}
        IN /\ mm_last'.raised = ""
           /\ IF live # {}
              THEN /\ Len(mm_last'.result) = 1
                   /\ mm_last'.result[1].topic \in live
                   /\ mm_last'.result[1].host = mm_last'.result[1].topic.host
              ELSE mm_last'.result = <<>>
           /\ RedisSMembers(redis_sets', ServiceTopic) \subseteq members
           /\ (members \ RedisSMembers(redis_sets', ServiceTopic)) \cap live = {}]_vars

\* C38: a register() call that raises because the inbound or the outbound
\* kind is invalid leaves the reactor as it was: the handler table and
\* socket list (the registered inbound sockets) and the pairing are the same
\* after the call as before it, so no socket the call opened is left.
C38_FailedRegisterChangesNothing ==
    [][(/\ reg_last' # reg_last
        /\ reg_last'.raised \in {"RPCException: Bad input socktype",
                                 "RPCException: Bad output socktype"}) =>
            (consumers' = consumers /\ mapping' = mapping)]_vars

\* the frame data was put on the queue of key once, or dropped with the
\* backlog error when that queue was full; no other queue changed
Enqueued(key, data) ==
    /\ DOMAIN topic_proxy' = DOMAIN topic_proxy
    /\ \A k \in (DOMAIN topic_proxy) \ {key} : topic_proxy'[k] = topic_proxy[k]
    /\ IF Len(topic_proxy[key]) < Backlog
       THEN /\ topic_proxy'[key] = Append(topic_proxy[key], data)
            /\ log' = log
       ELSE /\ topic_proxy'[key] = topic_proxy[key]
            /\ log' = Logged(log, LogError("backlog_full", key))
    /\ proxy_pc' = "recv"

\* C39: when the socket of a new routing key cannot be opened the frame is
\* dropped with an error log, neither a queue nor a worker is left for the
\* key and the relay goes back to receiving; a frame for a key without a
\* queue always starts a creation, also after a failure.  Every other frame
\* is put exactly once on the queue of its own key and changes no other
\* queue, unless that queue is full.
C39_CreationFailureDropsOnlyThatFrame ==
    /\ [](\A key \in RelayKeys :
            /\ key \in DOMAIN topic_proxy <=> key \in DOMAIN out_sock
            /\ (key \in DOMAIN publisher /\ key \notin DOMAIN topic_proxy) =>
                  (publisher[key].pc = "create" /\ proxy_pc = "wait")
            /\ key \in DOMAIN topic_proxy => key \in DOMAIN publisher)
    /\ [][/\ ProxyCreateFailed =>
               LET key == SplitBase(proxy_data.topic)
               IN /\ log' = Logged(log, LogError("socket_creation_failed", key))
                  /\ key \notin DOMAIN topic_proxy'
                  /\ key \notin DOMAIN publisher'
                  /\ topic_proxy' = topic_proxy
                  /\ proxy_pc' = "recv"
          /\ ProxyRecv =>
               LET data == (CHOOSE m \in wire \ wire' : TRUE).frame
                   key == SplitBase(data.topic)
               IN IF key \in DOMAIN topic_proxy
                  THEN Enqueued(key, data)
                  ELSE /\ key \in DOMAIN publisher'
                       /\ publisher'[key].pc = "create"
                       /\ proxy_pc' = "wait"
                       /\ proxy_data' = data
                       /\ topic_proxy' = topic_proxy
          /\ ProxyResume => Enqueued(SplitBase(proxy_data.topic), proxy_data)]_vars

\* the socket of a key could not be opened for one frame and was opened for
\* a later frame of the key, which is on its way out
C39_Witness ==
    \E key \in RelayKeys :
        /\ LogError("socket_creation_failed", key) \in DOMAIN log
        /\ key \in DOMAIN topic_proxy
        /\ HistOf(drained, key) # <<>>

\* ------------------------------------------------------------------------
\* The in-memory cache backend, cache/_backends/memory.py.  Every operation
\* holds the lock of its key; keys are given as _prepare_key returns them.
\* The clock does not move within one operation.
\* ------------------------------------------------------------------------
MaxClock == 12
MaxTtl == 2
MaxValue == 2

CacheKeys == {"k1"}

\* value + other in python: integers add, strings concatenate, a string and
\* an integer raise TypeError
PyAdd(value, other) ==
    IF DOMAIN value = {"int"} /\ DOMAIN other = {"int"}
    THEN [int |-> value.int + other.int]
    ELSE IF DOMAIN value = {"str"} /\ DOMAIN other = {"str"}
    THEN [str |-> value.str \o other.str]
    ELSE [raised |-> "TypeError"]

\* how far a value is from the largest the model lets it grow to
ValueSize(value) ==
    IF DOMAIN value = {"int"} THEN value.int
    ELSE IF DOMAIN value = {"str"} THEN Len(value.str) ELSE 0

CacheState(c, ke) == [cache |-> c, keys_expires |-> ke]

\* MemoryBackend._set_unlocked(key, value, ttl), lines 28-38
set_unlocked(c, ke, now, key, value, ttl) ==
    LET expires_at == IF ttl # 0 THEN now + ttl ELSE 0
    IN CacheState(DictSet(c, key, [expires_at |-> expires_at, value |-> value]),
                  IF expires_at # 0
                  THEN DictSet(ke, expires_at,
                               (IF expires_at \in DOMAIN ke THEN ke[expires_at] ELSE {})
                                   \cup {key})
                  ELSE ke)

\* MemoryBackend._get_unlocked(key, default), lines 45-72: an expired record
\* is removed, from _keys_expires too when it is there
get_unlocked(c, ke, now, key, default) ==
    IF key \notin DOMAIN c
    THEN [timeout |-> 0, value |-> default] @@ CacheState(c, ke)
    ELSE IF c[key].expires_at # 0 /\ now >= c[key].expires_at
    THEN [timeout |-> 0, value |-> default]
            @@ CacheState(DictDel(c, key),
                          IF c[key].expires_at \in DOMAIN ke
                          THEN [ke EXCEPT ![c[key].expires_at] = @ \ {key}]
                          ELSE ke)
    ELSE [timeout |-> c[key].expires_at, value |-> c[key].value] @@ CacheState(c, ke)

\* MemoryBackend._incr_append(key, other), lines 90-101
incr_append(c, ke, now, key, other) ==
    LET g == get_unlocked(c, ke, now, key, CacheNone)
        ttl == now - g.timeout
        new_value == PyAdd(g.value, other)
    IN IF g.value = CacheNone
       THEN [result |-> CacheNone, raised |-> "none"] @@ CacheState(g.cache, g.keys_expires)
       ELSE IF DOMAIN new_value = {"raised"}
       THEN [result |-> CacheNone, raised |-> new_value.raised]
                @@ CacheState(g.cache, g.keys_expires)
       ELSE [result |-> new_value, raised |-> "none"]
                @@ set_unlocked(g.cache, g.keys_expires, now, key, new_value, ttl)

\* the key holds a value that has not expired
Present(c, now, key) ==
    /\ key \in DOMAIN c
    /\ ~(c[key].expires_at # 0 /\ now >= c[key].expires_at)
    /\ c[key].value # CacheNone

CacheOp(op, key, result, raised) ==
    [op |-> op, key |-> key, present |-> Present(cache, utcnow_ts, key),
     timeout |-> IF key \in DOMAIN cache THEN cache[key].expires_at ELSE 0,
     result |-> result, raised |-> raised]

\* MemoryBackend.set(key, value, ttl), lines 40-43
CacheSet(key, value, ttl) ==
    /\ LET r == set_unlocked(cache, keys_expires, utcnow_ts, key, value, ttl)
       IN /\ cache' = r.cache
          /\ keys_expires' = r.keys_expires
    /\ cache_last' = CacheOp("set", key, CacheNone, "none")
    /\ UNCHANGED utcnow_ts
    /\ UNCHANGED cacheRest
    /\ UNCHANGED zmqVars
    /\ UNCHANGED mmVars

\* MemoryBackend.get(key), lines 74-77
CacheGet(key) ==
    /\ LET r == get_unlocked(cache, keys_expires, utcnow_ts, key, CacheNone)
       IN /\ cache' = r.cache
          /\ keys_expires' = r.keys_expires
          /\ cache_last' = CacheOp("get", key, r.value, "none")
    /\ UNCHANGED utcnow_ts
    /\ UNCHANGED cacheRest
    /\ UNCHANGED zmqVars
    /\ UNCHANGED mmVars

\* MemoryBackend.incr(key, delta) and append(key, tail), lines 103-107
CacheIncrAppend(op, key, other) ==
    /\ key \in DOMAIN cache => ValueSize(cache[key].value) < MaxValue
    /\ LET r == incr_append(cache, keys_expires, utcnow_ts, key, other)
       IN /\ cache' = r.cache
          /\ keys_expires' = r.keys_expires
          /\ cache_last' = CacheOp(op, key, r.result, r.raised)
    /\ UNCHANGED utcnow_ts
    /\ UNCHANGED cacheRest
    /\ UNCHANGED zmqVars
    /\ UNCHANGED mmVars

\* MemoryBackend.flush(), lines 146-148
CacheFlush ==
    /\ cache' = EmptyDict
    /\ keys_expires' = EmptyDict
    /\ cache_last' = CacheOp("flush", "", CacheNone, "none")
    /\ UNCHANGED utcnow_ts
    /\ UNCHANGED cacheRest
    /\ UNCHANGED zmqVars
    /\ UNCHANGED mmVars

\* a second passes
ClockTick ==
    /\ utcnow_ts < MaxClock
    /\ utcnow_ts' = utcnow_ts + 1
    /\ cache_last' = [NoCacheOp EXCEPT !.op = "tick"]
    /\ UNCHANGED <<cache, keys_expires>>
    /\ UNCHANGED cacheRest
    /\ UNCHANGED zmqVars
    /\ UNCHANGED mmVars

NextCache ==
    \/ \E key \in CacheKeys, value \in {[int |-> 1], [str |-> <<"a">>]}, ttl \in 0..MaxTtl :
          CacheSet(key, value, ttl)
    \/ \E key \in CacheKeys : CacheGet(key)
    \/ \E key \in CacheKeys : CacheIncrAppend("incr", key, [int |-> 1])
    \/ \E key \in CacheKeys : CacheIncrAppend("append", key, [str |-> <<"b">>])
    \/ CacheFlush
    \/ ClockTick

SpecCache == InitRedis /\ [][NextCache]_vars

\* C40: incr or append on a key that holds an unexpired value has left the
\* key with the expiry time it had before (none, or the same second), and a
\* get right after it returns the new value.
C40_IncrAppendKeepExpiry ==
    (/\ cache_last.op \in {"incr", "append"}
     /\ cache_last.present
     /\ cache_last.raised = "none") =>
        /\ cache_last.key \in DOMAIN cache
        /\ cache[cache_last.key].expires_at = cache_last.timeout
        /\ get_unlocked(cache, keys_expires, utcnow_ts, cache_last.key, CacheNone).value
              = cache_last.result

====
